---------------------------- MODULE Spec2Model ----------------------------
(***************************************************************************)
(* A model of the resilience layer of jasondavey/playon: the token-bucket  *)
(* RateLimiter (src/src/RateLimiter.ts), the CircuitBreaker state machine   *)
(* (src/unnamed/part_000) and the CacheManager (src/src/CacheManager.ts).   *)
(*                                                                         *)
(* Time is the value Date.now() returns, in milliseconds.  One public call *)
(* reads a single instant: the clock does not advance inside a synchronous *)
(* stretch of code.  The clock only moves in the Tick action, by whole     *)
(* multiples of MsPerTick.                                                  *)
(***************************************************************************)
EXTENDS Integers, Sequences, FiniteSets, TLC

VARIABLES
    now,            \* Date.now()
    \* ---- RateLimiter ----
    options,        \* RateLimiter.options (Required<RateLimitOptions>)
    tokens,         \* RateLimiter.tokens
    lastRefill,     \* RateLimiter.lastRefill
    rlLast,         \* the last call made on the limiter and what it returned
    ex,             \* the RateLimiter.execute call in progress
    admitted,       \* checks allowed since the bucket was last filled
    admittedAt,     \* times of the latest allowed checks, within the last windowMs
    \* ---- CircuitBreaker ----
    config,         \* CircuitBreaker.config
    cb,             \* the breaker's private fields
    inflight,       \* operations awaited by execute, by the state that admitted them
    cbLast,         \* the last step taken on the breaker and what it produced
    fresh,          \* bookkeeping of the failures seen by a new breaker
    forced,         \* number of forceOpen / forceClose calls made
    halfOpenSuccesses,  \* successes recorded since the breaker last entered HALF_OPEN
    \* ---- CacheManager ----
    cacheConfig,    \* CacheManager.config
    cache,          \* CacheManager.cache, the Map's entries in insertion order
    accessOrder,    \* CacheManager.accessOrder
    metrics,        \* CacheManager.metrics
    cacheLast,      \* the last call made on the cache and what it returned
    cacheOps,       \* number of calls made on the cache and of ticks of its clock
    touchOrder,     \* the stored keys, by their latest set or get hit, oldest first
    \* ---- UsersApi ----
    api,            \* the UsersApi call in progress or last made, and counts of calls
    \* ---- construction ----
    built,          \* the last constructor call: its class, its argument, its outcome
    \* ---- CacheManager, set calls that are not awaited ----
    pending,        \* the set calls suspended at an await, in the order they resume
    \* ---- UsersApi with an AuthService, called by concurrent callers ----
    session,        \* AuthService.session
    server,         \* user 1 as the remote server holds it
    callers         \* each caller's UsersApi call, in progress or last made

rlVars == <<options, tokens, lastRefill, rlLast, ex, admitted, admittedAt>>
cbVars == <<config, cb, inflight, cbLast, fresh, forced, halfOpenSuccesses>>

cacheVars == <<cacheConfig, cache, accessOrder, metrics, cacheLast, cacheOps,
               touchOrder>>

authApiVars == <<session, server, callers>>

restRL == <<cbVars, cacheVars, api, built, pending, authApiVars>>
restCB == <<rlVars, cacheVars, api, built, pending, authApiVars>>
restCache == <<rlVars, cbVars, api, built, authApiVars>>

vars == <<now, options, tokens, lastRefill, rlLast, ex, admitted, admittedAt,
          config, cb, inflight, cbLast, fresh, forced, halfOpenSuccesses,
          cacheConfig, cache, accessOrder, metrics, cacheLast, cacheOps,
          touchOrder, api, built, pending, session, server, callers>>

---------------------------------------------------------------------------
(* Bounds of the model *)

\* the clock stops after this many ticks
MaxTime == 3
\* largest maxRequests a limiter is built with
MaxCapacity == 2

\* one tick of the clock, in milliseconds
MsPerTick == 500

\* the windowMs and maxRetries values limiters are built with
WindowChoices == {MsPerTick, 2 * MsPerTick}
RetryChoices == {1, 2}

None == -1

Min(a, b) == IF a < b THEN a ELSE b
Max(a, b) == IF a > b THEN a ELSE b

\* Math.floor(a / b) and Math.ceil(a / b) for a >= 0, b > 0
FloorDiv(a, b) == a \div b
CeilDiv(a, b) == (a + b - 1) \div b

RECURSIVE Pow2(_)
Pow2(n) == IF n <= 0 THEN 1 ELSE 2 * Pow2(n - 1)

---------------------------------------------------------------------------
(* RateLimiter *)

\* the option records a limiter is constructed with; enableRetry, maxRetries,
\* retryDelayMs and exponentialBackoff take the constructor's defaults when
\* retries are left disabled
RateLimitOptions ==
    { [maxRequests |-> m, windowMs |-> w, enableRetry |-> TRUE,
       maxRetries |-> r, retryDelayMs |-> MsPerTick, exponentialBackoff |-> e] :
         m \in 1..MaxCapacity, w \in WindowChoices,
         r \in RetryChoices, e \in BOOLEAN }
    \cup
    { [maxRequests |-> m, windowMs |-> w, enableRetry |-> FALSE,
       maxRetries |-> 3, retryDelayMs |-> 1000, exponentialBackoff |-> TRUE] :
         m \in 1..MaxCapacity, w \in WindowChoices }

\* refillTokens as written without the Math.min cap
RefillTokensUncapped(opt, tok, lr, t) ==
    LET timePassed == t - lr IN
    IF timePassed >= opt.windowMs
    THEN [tokens |-> tok + FloorDiv(timePassed, opt.windowMs) * opt.maxRequests,
          lastRefill |-> t]
    ELSE [tokens |-> tok, lastRefill |-> lr]

\* refillTokens that refills only once more than a window has gone by
RefillTokensLate(opt, tok, lr, t) ==
    LET timePassed == t - lr IN
    IF timePassed > opt.windowMs
    THEN LET windowsPassed == FloorDiv(timePassed, opt.windowMs) IN
         [tokens |-> Min(opt.maxRequests, tok + windowsPassed * opt.maxRequests),
          lastRefill |-> t]
    ELSE [tokens |-> tok, lastRefill |-> lr]

\* refillTokens(): the bucket after the refill step at time t
RefillTokens(opt, tok, lr, t) ==
    LET timePassed == t - lr IN
    IF timePassed >= opt.windowMs
    THEN LET windowsPassed == FloorDiv(timePassed, opt.windowMs) IN
         [tokens |-> Min(opt.maxRequests, tok + windowsPassed * opt.maxRequests),
          lastRefill |-> t]
    ELSE [tokens |-> tok, lastRefill |-> lr]

\* getResetTime()
GetResetTime(opt, lr, t) == Max(0, opt.windowMs - (t - lr))

\* checkLimit that admits a call on an empty bucket
CheckLimitAdmitsAtZero(opt, tok, lr, t) ==
    LET b == RefillTokens(opt, tok, lr, t)
        reset == GetResetTime(opt, b.lastRefill, t)
    IN  [tokens |-> b.tokens - 1, lastRefill |-> b.lastRefill,
         status |-> [allowed |-> TRUE, tokensRemaining |-> b.tokens - 1,
                     maxTokens |-> opt.maxRequests, resetTime |-> reset,
                     retryAfter |-> None]]

\* checkLimit(): the bucket after the call and the status it returns
CheckLimit(opt, tok, lr, t) ==
    LET b == RefillTokens(opt, tok, lr, t)
        reset == GetResetTime(opt, b.lastRefill, t)
    IN  IF b.tokens > 0
        THEN [tokens |-> b.tokens - 1, lastRefill |-> b.lastRefill,
              status |-> [allowed |-> TRUE, tokensRemaining |-> b.tokens - 1,
                          maxTokens |-> opt.maxRequests, resetTime |-> reset,
                          retryAfter |-> None]]
        ELSE [tokens |-> b.tokens, lastRefill |-> b.lastRefill,
              status |-> [allowed |-> FALSE, tokensRemaining |-> b.tokens,
                          maxTokens |-> opt.maxRequests, resetTime |-> reset,
                          retryAfter |-> CeilDiv(reset, 1000)]]

\* getStatus(): same refill, no token taken
GetStatus(opt, tok, lr, t) ==
    LET b == RefillTokens(opt, tok, lr, t)
        reset == GetResetTime(opt, b.lastRefill, t)
    IN  [tokens |-> b.tokens, lastRefill |-> b.lastRefill,
         status |-> [allowed |-> b.tokens > 0, tokensRemaining |-> b.tokens,
                     maxTokens |-> opt.maxRequests, resetTime |-> reset,
                     retryAfter |-> IF b.tokens > 0 THEN None
                                    ELSE CeilDiv(reset, 1000)]]

\* getHeaders(): X-RateLimit-Limit / -Remaining / -Reset / -Window
GetHeaders(opt, tok, lr, t) ==
    LET b == RefillTokens(opt, tok, lr, t)
        reset == GetResetTime(opt, b.lastRefill, t)
    IN  [tokens |-> b.tokens, lastRefill |-> b.lastRefill,
         headers |-> [limit |-> opt.maxRequests, remaining |-> b.tokens,
                      reset |-> CeilDiv(t + reset, 1000),
                      window |-> opt.windowMs]]

\* calculateRetryDelay() that never backs off
CalculateRetryDelayConstant(opt, attempt) == opt.retryDelayMs

\* calculateRetryDelay(attempt)
CalculateRetryDelay(opt, attempt) ==
    IF opt.exponentialBackoff
    THEN opt.retryDelayMs * Pow2(attempt - 1)
    ELSE opt.retryDelayMs

NoStatus ==
    [allowed |-> FALSE, tokensRemaining |-> 0, maxTokens |-> 0,
     resetTime |-> 0, retryAfter |-> None]

\* no execute call in progress
ExIdle ==
    [pc |-> "idle", attempts |-> 0, status |-> NoStatus, checks |-> 0,
     invoked |-> 0, sleeps |-> <<>>, wake |-> 0, outcome |-> "none",
     fnResult |-> "none",
     errRetryAfter |-> None, errTokens |-> None]

\* the same part of execute throwing as the code after the loop does, with
\* retryAfter 0 and tokensRemaining 0
ExecuteRetryOrThrowBare(opt, e, t) ==
    IF ~opt.enableRetry \/ e.attempts >= opt.maxRetries
    THEN [e EXCEPT !.pc = "done", !.outcome = "RateLimitError",
                   !.errRetryAfter = 0, !.errTokens = 0]
    ELSE LET delay == CalculateRetryDelay(opt, e.attempts + 1) IN
         [e EXCEPT !.pc = "sleep", !.attempts = e.attempts + 1,
                   !.sleeps = Append(e.sleeps, delay), !.wake = t + delay]

\* execute(), lines 141-156: the part of a loop iteration after a rejected
\* check or a RateLimitError thrown by fn
ExecuteRetryOrThrow(opt, e, t) ==
    IF ~opt.enableRetry \/ e.attempts >= opt.maxRetries
    THEN [e EXCEPT !.pc = "done", !.outcome = "RateLimitError",
                   !.errRetryAfter = IF e.status.retryAfter = None THEN 0
                                     ELSE e.status.retryAfter,
                   !.errTokens = e.status.tokensRemaining]
    ELSE LET delay == CalculateRetryDelay(opt, e.attempts + 1) IN
         [e EXCEPT !.pc = "sleep", !.attempts = e.attempts + 1,
                   !.sleeps = Append(e.sleeps, delay), !.wake = t + delay]

\* the same part of execute retrying after any error of fn
FnSettlesRetriesAll(opt, e, t) ==
    IF e.fnResult = "ok"
    THEN [e EXCEPT !.pc = "done", !.outcome = "ok"]
    ELSE ExecuteRetryOrThrow(opt, e, t)

\* execute(), lines 129-139: fn() has settled with e.fnResult
FnSettles(opt, e, t) ==
    CASE e.fnResult = "ok" -> [e EXCEPT !.pc = "done", !.outcome = "ok"]
      [] e.fnResult = "error" -> [e EXCEPT !.pc = "done", !.outcome = "error"]
      [] OTHER -> ExecuteRetryOrThrow(opt, e, t)

\* execute(), lines 126-139: the head of a loop iteration, up to the await
ExecuteIteration(opt, e, tok, lr, t) ==
    IF e.attempts > opt.maxRetries
    THEN \* lines 159-164: the loop ran out
         [tokens |-> tok, lastRefill |-> lr, checked |-> FALSE, status |-> NoStatus,
          ex |-> [e EXCEPT !.pc = "done", !.outcome = "RateLimitError",
                           !.errRetryAfter = 0, !.errTokens = 0]]
    ELSE LET c == CheckLimit(opt, tok, lr, t)
             e1 == [e EXCEPT !.status = c.status, !.checks = e.checks + 1]
         IN  [tokens |-> c.tokens, lastRefill |-> c.lastRefill,
              checked |-> TRUE, status |-> c.status,
              ex |-> IF c.status.allowed
                     THEN [e1 EXCEPT !.pc = "fn", !.invoked = e1.invoked + 1]
                     ELSE ExecuteRetryOrThrow(opt, e1, t)]

\* a call on the limiter: its name, the time, and the status it returned
RlCall(op, t, status) == [op |-> op, at |-> t, status |-> status]

\* the admissions of the last windowMs at time t, the latest
\* maxRequests + 1 of them
RecentOnly(opt, times, t) ==
    LET recent == SelectSeq(times, LAMBDA x : x > t - opt.windowMs)
        extra == Len(recent) - (opt.maxRequests + 1)
    IN  IF extra > 0 THEN SubSeq(recent, extra + 1, Len(recent)) ELSE recent

\* the bookkeeping of admissions after a call that left lastRefill at lr
\* and admitted a check or not
Admissions(lr, allowed) ==
    /\ admitted' = (IF lr # lastRefill THEN 0 ELSE admitted)
                     + (IF allowed THEN 1 ELSE 0)
    /\ admittedAt' = RecentOnly(options,
                                 IF allowed THEN Append(admittedAt, now)
                                 ELSE admittedAt, now)

RLInit ==
    /\ options \in RateLimitOptions
    /\ tokens = options.maxRequests
    /\ lastRefill = now
    /\ rlLast = RlCall("new", now, NoStatus)
    /\ ex = ExIdle
    /\ admitted = 0
    /\ admittedAt = <<>>

\* the limiter is not used
RLIdle ==
    /\ options = [maxRequests |-> 1, windowMs |-> MsPerTick, enableRetry |-> FALSE,
                  maxRetries |-> 3, retryDelayMs |-> 1000,
                  exponentialBackoff |-> TRUE]
    /\ tokens = 1
    /\ lastRefill = 0
    /\ rlLast = RlCall("new", 0, NoStatus)
    /\ ex = ExIdle
    /\ admitted = 0
    /\ admittedAt = <<>>

\* a caller calls checkLimit()
RLCheckLimit ==
    LET c == CheckLimit(options, tokens, lastRefill, now) IN
    /\ tokens' = c.tokens
    /\ lastRefill' = c.lastRefill
    /\ rlLast' = RlCall("checkLimit", now, c.status)
    /\ Admissions(c.lastRefill, c.status.allowed)
    /\ UNCHANGED <<now, options, ex>>
    /\ UNCHANGED restRL

\* a caller calls getStatus()
RLGetStatus ==
    LET c == GetStatus(options, tokens, lastRefill, now) IN
    /\ tokens' = c.tokens
    /\ lastRefill' = c.lastRefill
    /\ rlLast' = RlCall("getStatus", now, c.status)
    /\ Admissions(c.lastRefill, FALSE)
    /\ UNCHANGED <<now, options, ex>>
    /\ UNCHANGED restRL

\* a caller calls getHeaders()
RLGetHeaders ==
    LET c == GetHeaders(options, tokens, lastRefill, now) IN
    /\ tokens' = c.tokens
    /\ lastRefill' = c.lastRefill
    /\ rlLast' = RlCall("getHeaders", now,
                         [NoStatus EXCEPT !.tokensRemaining = c.headers.remaining,
                                          !.maxTokens = c.headers.limit,
                                          !.resetTime = c.headers.reset])
    /\ Admissions(c.lastRefill, FALSE)
    /\ UNCHANGED <<now, options, ex>>
    /\ UNCHANGED restRL

\* a caller calls reset()
RLReset ==
    /\ tokens' = options.maxRequests
    /\ lastRefill' = now
    /\ rlLast' = RlCall("reset", now, NoStatus)
    /\ admitted' = 0
    /\ admittedAt' = <<>>
    /\ UNCHANGED <<now, options, ex>>
    /\ UNCHANGED restRL

\* a caller calls execute(fn): the first loop iteration runs up to its await
RLExecuteStart ==
    /\ ex.pc \in {"idle", "done"}
    /\ LET r == ExecuteIteration(options, ExIdle, tokens, lastRefill, now) IN
       /\ tokens' = r.tokens
       /\ lastRefill' = r.lastRefill
       /\ ex' = r.ex
       /\ rlLast' = IF r.checked THEN RlCall("execute", now, r.status)
                    ELSE rlLast
       /\ Admissions(r.lastRefill, r.checked /\ r.status.allowed)
    /\ UNCHANGED <<now, options>>
    /\ UNCHANGED restRL

\* fn() settles: it returns, throws an error of its own, or throws a
\* RateLimitError
RLExecuteFnSettles ==
    /\ ex.pc = "fn"
    /\ \E result \in {"ok", "error", "RateLimitError"} :
         ex' = FnSettles(options, [ex EXCEPT !.fnResult = result], now)
    /\ UNCHANGED <<now, options, tokens, lastRefill, rlLast, admitted, admittedAt>>
    /\ UNCHANGED restRL

\* the backoff sleep ends and the next loop iteration runs up to its await
RLExecuteWake ==
    /\ ex.pc = "sleep"
    /\ now >= ex.wake
    /\ LET r == ExecuteIteration(options, ex, tokens, lastRefill, now) IN
       /\ tokens' = r.tokens
       /\ lastRefill' = r.lastRefill
       /\ ex' = r.ex
       /\ rlLast' = IF r.checked THEN RlCall("execute", now, r.status)
                    ELSE rlLast
       /\ Admissions(r.lastRefill, r.checked /\ r.status.allowed)
    /\ UNCHANGED <<now, options>>
    /\ UNCHANGED restRL

---------------------------------------------------------------------------
(* CircuitBreaker *)

\* most calls (execute, forceOpen, forceClose) made on one breaker
MaxCalls == 3
\* most operations awaited at once
MaxInFlight == 2
\* the failureThreshold / successThreshold values breakers are built with
ThresholdChoices == {1, 2}

\* the failureThreshold values breakers are built with
FailureThresholdChoices == {1, 2, 3}

\* the monitoringPeriod values breakers are built with
MonitoringChoices == {MsPerTick, 2 * MsPerTick}

\* the configurations a breaker is constructed with, all of them accepted by
\* validateConfig; isFailure and fallback say whether the option is supplied
CircuitBreakerConfig ==
    [failureThreshold : FailureThresholdChoices,
     successThreshold : ThresholdChoices,
     timeout : {MsPerTick}, monitoringPeriod : MonitoringChoices,
     isFailure : BOOLEAN, fallback : BOOLEAN]

\* the fields of a new CircuitBreaker (lines 54-62)
NewBreaker ==
    [state |-> "CLOSED", failureCount |-> 0, successCount |-> 0,
     totalRequests |-> 0, lastFailureTime |-> None, lastSuccessTime |-> None,
     nextAttemptTime |-> None, failures |-> <<>>]

\* Array.prototype.filter on the failure timestamps
RECURSIVE FilterAfter(_, _)
FilterAfter(fs, cutoff) ==
    IF fs = <<>> THEN <<>>
    ELSE IF Head(fs) > cutoff
         THEN <<Head(fs)>> \o FilterAfter(Tail(fs), cutoff)
         ELSE FilterAfter(Tail(fs), cutoff)

\* cleanupOldFailures()
CleanupOldFailures(cfg, b, t) ==
    LET validFailures == FilterAfter(b.failures, t - cfg.monitoringPeriod) IN
    IF Len(validFailures) # Len(b.failures)
    THEN [b EXCEPT !.failures = validFailures,
                   !.failureCount = Len(validFailures)]
    ELSE b

\* openCircuit() that forgets to add the timeout
OpenCircuitNoTimeout(cfg, b, t) ==
    [b EXCEPT !.state = "OPEN", !.nextAttemptTime = t]

\* openCircuit()
OpenCircuit(cfg, b, t) ==
    [b EXCEPT !.state = "OPEN", !.nextAttemptTime = t + cfg.timeout]

\* reset()
ResetKeepsNextAttemptTime(b) ==
    [b EXCEPT !.state = "CLOSED", !.failureCount = 0, !.successCount = 0,
              !.failures = <<>>]

Reset(b) ==
    [b EXCEPT !.state = "CLOSED", !.failureCount = 0, !.successCount = 0,
              !.nextAttemptTime = None, !.failures = <<>>]

\* shouldAttemptReset() that does not compare with the clock
ShouldAttemptResetNoClock(b, t) == b.nextAttemptTime # None

\* shouldAttemptReset()
ShouldAttemptReset(b, t) ==
    IF b.nextAttemptTime # None THEN t >= b.nextAttemptTime ELSE FALSE

\* getMetrics(): the snapshot, with the number of recent failures in place of
\* the failure rate recentFailures / totalRequests
GetMetrics(cfg, b, t) ==
    [state |-> b.state, failureCount |-> b.failureCount,
     successCount |-> b.successCount, totalRequests |-> b.totalRequests,
     lastFailureTime |-> b.lastFailureTime,
     lastSuccessTime |-> b.lastSuccessTime,
     nextAttemptTime |-> b.nextAttemptTime,
     recentFailures |-> Len(FilterAfter(b.failures, t - cfg.monitoringPeriod))]

\* onSuccess() that closes one success late
OnSuccessOffByOne(cfg, b, t) ==
    LET b1 == [b EXCEPT !.lastSuccessTime = t,
                        !.successCount = b.successCount + 1]
    IN  IF b1.state = "HALF_OPEN"
        THEN IF b1.successCount > cfg.successThreshold THEN Reset(b1) ELSE b1
        ELSE IF b1.state = "CLOSED"
             THEN CleanupOldFailures(cfg, [b1 EXCEPT !.failureCount = 0], t)
             ELSE b1

\* onSuccess()
OnSuccess(cfg, b, t) ==
    LET b1 == [b EXCEPT !.lastSuccessTime = t,
                        !.successCount = b.successCount + 1]
    IN  IF b1.state = "HALF_OPEN"
        THEN IF b1.successCount >= cfg.successThreshold THEN Reset(b1) ELSE b1
        ELSE IF b1.state = "CLOSED"
             THEN CleanupOldFailures(cfg, [b1 EXCEPT !.failureCount = 0], t)
             ELSE b1

\* onFailure() without the HALF_OPEN branch
OnFailureClosedOnly(cfg, b, qualifies, t) ==
    IF cfg.isFailure /\ ~qualifies
    THEN b
    ELSE LET b1 == [b EXCEPT !.lastFailureTime = t,
                             !.failureCount = b.failureCount + 1,
                             !.failures = Append(b.failures, t)]
             b2 == CleanupOldFailures(cfg, b1, t)
         IN  IF b2.failureCount >= cfg.failureThreshold
             THEN OpenCircuit(cfg, b2, t)
             ELSE b2

\* onFailure() that records the failure whatever config.isFailure answers
OnFailureIgnoresPredicate(cfg, b, qualifies, t) ==
    LET b1 == [b EXCEPT !.lastFailureTime = t,
                        !.failureCount = b.failureCount + 1,
                        !.failures = Append(b.failures, t)]
        b2 == CleanupOldFailures(cfg, b1, t)
    IN  IF b2.state = "CLOSED" /\ b2.failureCount >= cfg.failureThreshold
        THEN OpenCircuit(cfg, b2, t)
        ELSE IF b2.state = "HALF_OPEN"
             THEN OpenCircuit(cfg, b2, t)
             ELSE b2

\* onFailure(error); qualifies is what config.isFailure answers for the error
OnFailure(cfg, b, qualifies, t) ==
    IF cfg.isFailure /\ ~qualifies
    THEN b
    ELSE LET b1 == [b EXCEPT !.lastFailureTime = t,
                             !.failureCount = b.failureCount + 1,
                             !.failures = Append(b.failures, t)]
             b2 == CleanupOldFailures(cfg, b1, t)
         IN  IF b2.state = "CLOSED" /\ b2.failureCount >= cfg.failureThreshold
             THEN OpenCircuit(cfg, b2, t)
             ELSE IF b2.state = "HALF_OPEN"
                  THEN OpenCircuit(cfg, b2, t)
                  ELSE b2

\* execute() that throws CircuitBreakerError even when a fallback is configured
ExecuteAdmitIgnoresFallback(cfg, b, t) ==
    LET b1 == [b EXCEPT !.totalRequests = b.totalRequests + 1] IN
    IF b1.state = "OPEN"
    THEN IF ShouldAttemptReset(b1, t)
         THEN [cb |-> [b1 EXCEPT !.state = "HALF_OPEN", !.successCount = 0],
               invoked |-> TRUE, result |-> "pending"]
         ELSE [cb |-> b1, invoked |-> FALSE, result |-> "CircuitBreakerError"]
    ELSE [cb |-> b1, invoked |-> TRUE, result |-> "pending"]

\* execute() that keeps successCount when it moves to HALF_OPEN
ExecuteAdmitKeepCount(cfg, b, t) ==
    LET b1 == [b EXCEPT !.totalRequests = b.totalRequests + 1] IN
    IF b1.state = "OPEN"
    THEN IF ShouldAttemptReset(b1, t)
         THEN [cb |-> [b1 EXCEPT !.state = "HALF_OPEN"],
               invoked |-> TRUE, result |-> "pending"]
         ELSE IF cfg.fallback
              THEN [cb |-> b1, invoked |-> FALSE, result |-> "fallback"]
              ELSE [cb |-> b1, invoked |-> FALSE,
                    result |-> "CircuitBreakerError"]
    ELSE [cb |-> b1, invoked |-> TRUE, result |-> "pending"]

\* execute(), lines 78-114: the call up to the point where it either awaits
\* the operation, returns the fallback or throws CircuitBreakerError
ExecuteAdmit(cfg, b, t) ==
    LET b1 == [b EXCEPT !.totalRequests = b.totalRequests + 1] IN
    IF b1.state = "OPEN"
    THEN IF ShouldAttemptReset(b1, t)
         THEN [cb |-> [b1 EXCEPT !.state = "HALF_OPEN", !.successCount = 0],
               invoked |-> TRUE, result |-> "pending"]
         ELSE IF cfg.fallback
              THEN [cb |-> b1, invoked |-> FALSE, result |-> "fallback"]
              ELSE [cb |-> b1, invoked |-> FALSE,
                    result |-> "CircuitBreakerError"]
    ELSE [cb |-> b1, invoked |-> TRUE, result |-> "pending"]

NoMetrics == GetMetrics([monitoringPeriod |-> 0], NewBreaker, 0)

\* a step on the breaker: what was called, when, the breaker's state and
\* successCount before it, whether the operation was invoked, what the
\* caller got, and for a settled operation the state that admitted it and
\* whether its error qualifies
CbStep(op, t, b) ==
    [op |-> op, at |-> t, before |-> b.state, successBefore |-> b.successCount,
     invoked |-> FALSE,
     result |-> "none", admitted |-> "none", qualifies |-> FALSE,
     errState |-> "none", errMetrics |-> NoMetrics]

NoInflight == [CLOSED |-> 0, HALF_OPEN |-> 0]

\* a breaker that has seen nothing but qualifying failures since it was
\* built: how many, when the first was, and whether the first
\* failureThreshold of them lie within one monitoringPeriod
FreshStart == [valid |-> TRUE, failures |-> 0, first |-> None, within |-> TRUE]

FreshOver == [valid |-> FALSE, failures |-> 0, first |-> None, within |-> FALSE]

FreshAfterFailure(cfg, f, t) ==
    IF ~f.valid THEN f
    ELSE LET first == IF f.first = None THEN t ELSE f.first IN
         [valid |-> TRUE, failures |-> f.failures + 1, first |-> first,
          within |-> IF f.failures < cfg.failureThreshold
                     THEN f.within /\ t - first < cfg.monitoringPeriod
                     ELSE f.within]

CBInit ==
    /\ config \in CircuitBreakerConfig
    /\ cb = NewBreaker
    /\ inflight = NoInflight
    /\ cbLast = CbStep("new", now, NewBreaker)
    /\ fresh = FreshStart
    /\ forced = 0
    /\ halfOpenSuccesses = 0

\* the breaker is not used
CBIdle ==
    /\ config = [failureThreshold |-> 1, successThreshold |-> 1,
                 timeout |-> MsPerTick, monitoringPeriod |-> MsPerTick,
                 isFailure |-> FALSE, fallback |-> FALSE]
    /\ cb = NewBreaker
    /\ inflight = NoInflight
    /\ cbLast = CbStep("new", 0, NewBreaker)
    /\ fresh = FreshStart
    /\ forced = 0
    /\ halfOpenSuccesses = 0

\* a caller calls execute(operation): the call runs up to its await, its
\* return of the fallback or its throw
CBExecute ==
    /\ cb.totalRequests + forced < MaxCalls
    /\ inflight.CLOSED + inflight.HALF_OPEN < MaxInFlight
    /\ LET r == ExecuteAdmit(config, cb, now) IN
       /\ cb' = r.cb
       /\ inflight' = IF r.invoked
                      THEN [inflight EXCEPT ![r.cb.state] = @ + 1]
                      ELSE inflight
       /\ cbLast' = [CbStep("execute", now, cb) EXCEPT
                       !.invoked = r.invoked, !.result = r.result,
                       !.admitted = IF r.invoked THEN r.cb.state ELSE "none",
                       !.errState = IF r.result = "CircuitBreakerError"
                                    THEN r.cb.state ELSE "none",
                       !.errMetrics = IF r.result = "CircuitBreakerError"
                                      THEN GetMetrics(config, r.cb, now)
                                      ELSE NoMetrics]
       /\ fresh' = IF cb.state = "OPEN" /\ r.cb.state = "HALF_OPEN"
                   THEN FreshOver ELSE fresh
       /\ halfOpenSuccesses' = IF cb.state = "OPEN" /\ r.cb.state = "HALF_OPEN"
                               THEN 0 ELSE halfOpenSuccesses
    /\ UNCHANGED <<now, config, forced>>
    /\ UNCHANGED restCB

\* an awaited operation resolves: execute calls onSuccess and returns the value
CBOperationSucceeds ==
    /\ \E a \in {"CLOSED", "HALF_OPEN"} :
         /\ inflight[a] > 0
         /\ inflight' = [inflight EXCEPT ![a] = @ - 1]
         /\ cb' = OnSuccess(config, cb, now)
         /\ cbLast' = [CbStep("success", now, cb) EXCEPT
                         !.invoked = TRUE, !.result = "value", !.admitted = a]
         /\ fresh' = FreshOver
         /\ halfOpenSuccesses' = IF cb.state = "HALF_OPEN"
                                 THEN halfOpenSuccesses + 1
                                 ELSE halfOpenSuccesses
    /\ UNCHANGED <<now, config, forced>>
    /\ UNCHANGED restCB

\* an awaited operation rejects: execute calls onFailure and rethrows the error
CBOperationFails ==
    /\ \E a \in {"CLOSED", "HALF_OPEN"}, qualifies \in BOOLEAN :
         /\ inflight[a] > 0
         /\ inflight' = [inflight EXCEPT ![a] = @ - 1]
         /\ cb' = OnFailure(config, cb, qualifies, now)
         /\ cbLast' = [CbStep("failure", now, cb) EXCEPT
                         !.invoked = TRUE, !.result = "error", !.admitted = a,
                         !.qualifies = (~config.isFailure \/ qualifies)]
         /\ fresh' = IF ~config.isFailure \/ qualifies
                     THEN FreshAfterFailure(config, fresh, now)
                     ELSE fresh
    /\ UNCHANGED <<now, config, forced, halfOpenSuccesses>>
    /\ UNCHANGED restCB

\* forceOpen()
CBForceOpen ==
    /\ cb.totalRequests + forced < MaxCalls
    /\ forced' = forced + 1
    /\ cb' = OpenCircuit(config, cb, now)
    /\ cbLast' = CbStep("forceOpen", now, cb)
    /\ fresh' = FreshOver
    /\ UNCHANGED <<now, config, inflight, halfOpenSuccesses>>
    /\ UNCHANGED restCB

\* forceClose()
CBForceClose ==
    /\ cb.totalRequests + forced < MaxCalls
    /\ forced' = forced + 1
    /\ cb' = Reset(cb)
    /\ cbLast' = CbStep("forceClose", now, cb)
    /\ fresh' = FreshOver
    /\ UNCHANGED <<now, config, inflight, halfOpenSuccesses>>
    /\ UNCHANGED restCB

---------------------------------------------------------------------------
(* CacheManager *)

\* most steps (calls and clock ticks) in one run of a cache
MaxCacheSteps == 5

\* what the model writes for JavaScript's undefined key and null value
Undefined == "undefined"
Null == "null"

Keys == {"k1", "k2", "k3"}

\* the value, ttl option and tags set is called with
SetChoices ==
    { [value |-> "a", ttl |-> None, tags |-> {}],
      [value |-> "b", ttl |-> MsPerTick, tags |-> {"t1", "t2"}],
      [value |-> "toobig", ttl |-> None, tags |-> {"t1"}],
      [value |-> "a", ttl |-> 0, tags |-> {}] }

\* the tags invalidateByTags is called with
InvalidateTagChoices == {{"t1"}, {"t2", "t3"}}

\* the maxSize values caches are built with
MaxSizeChoices == {1, 2}

\* the configurations a cache is constructed with, all of them accepted by
\* validateConfig; the metrics and the cleanup timer do not depend on
\* enableMetrics or enableCompression, which the class never reads
CacheConfig ==
    [maxSize : MaxSizeChoices, defaultTtl : {2 * MsPerTick},
     strategy : {"LRU", "TTL"}, maxEntrySize : {4}]

\* calculateSize(): the UTF-8 length of JSON.stringify of a string of ASCII
\* letters, which is the string between two quotes
CalculateSize(value) == Len(value) + 2

\* isExpired() that counts the instant expiresAt as expired
IsExpiredAtExpiry(entry, t) == t >= entry.expiresAt

\* isExpired()
IsExpired(entry, t) == t > entry.expiresAt

\* Map.has / Map.get on the entries
HasKey(store, key) == \E i \in 1..Len(store) : store[i].key = key
EntryOf(store, key) == store[CHOOSE i \in 1..Len(store) : store[i].key = key]
KeysOf(store) == {store[i].key : i \in 1..Len(store)}

\* Map.delete: the other entries keep their order
MapDelete(store, key) == SelectSeq(store, LAMBDA e : e.key # key)

\* Map.set: a key already present keeps its place, a new key goes last
MapSet(store, entry) ==
    IF HasKey(store, entry.key)
    THEN [i \in 1..Len(store) |->
            IF store[i].key = entry.key THEN entry ELSE store[i]]
    ELSE Append(store, entry)

\* removeFromAccessOrder(): indexOf + splice drop the first occurrence
RemoveFromAccessOrder(order, key) ==
    IF \E i \in 1..Len(order) : order[i] = key
    THEN LET idx == CHOOSE i \in 1..Len(order) :
                      order[i] = key /\ \A j \in 1..(i - 1) : order[j] # key
         IN  SubSeq(order, 1, idx - 1) \o SubSeq(order, idx + 1, Len(order))
    ELSE order

\* updateAccessOrder()
UpdateAccessOrder(order, key) == Append(RemoveFromAccessOrder(order, key), key)

RECURSIVE SumSizes(_)
SumSizes(store) ==
    IF store = <<>> THEN 0 ELSE Head(store).size + SumSizes(Tail(store))

\* updateMetrics()
UpdateMetrics(c) ==
    [c EXCEPT !.metrics.size = Len(c.cache),
              !.metrics.memoryUsage = SumSizes(c.cache)]

\* the fields of a new CacheManager (lines 88-108); the averages and ratios
\* of the metrics are left out
NewCache ==
    [cache |-> <<>>, accessOrder |-> <<>>,
     metrics |-> [hits |-> 0, misses |-> 0, size |-> 0, memoryUsage |-> 0,
                  evictions |-> 0, expirations |-> 0]]

\* the keys of a list of entries, in order
RECURSIVE KeySeq(_)
KeySeq(store) ==
    IF store = <<>> THEN <<>> ELSE <<Head(store).key>> \o KeySeq(Tail(store))

RECURSIVE RemoveAllFromAccessOrder(_, _)
RemoveAllFromAccessOrder(order, keys) ==
    IF keys = <<>> THEN order
    ELSE RemoveAllFromAccessOrder(RemoveFromAccessOrder(order, Head(keys)),
                                  Tail(keys))

\* cleanup(): every expired entry is deleted and counted as an expiration
Cleanup(c, t) ==
    LET expired == SelectSeq(c.cache, LAMBDA e : IsExpired(e, t))
        c1 == [c EXCEPT
                 !.cache = SelectSeq(c.cache, LAMBDA e : ~IsExpired(e, t)),
                 !.accessOrder = RemoveAllFromAccessOrder(c.accessOrder,
                                                          KeySeq(expired)),
                 !.metrics.expirations = @ + Len(expired)]
    IN  [c |-> UpdateMetrics(c1), result |-> Len(expired)]

\* evictEntry(), default branch: the first entry, in Map order, whose
\* createdAt is smaller than that of every entry before it and not larger
\* than that of any entry after it
OldestKey(store) ==
    IF store = <<>> THEN Undefined
    ELSE store[CHOOSE i \in 1..Len(store) :
                 /\ \A j \in 1..(i - 1) : store[j].createdAt > store[i].createdAt
                 /\ \A j \in (i + 1)..Len(store) :
                      store[j].createdAt >= store[i].createdAt].key

\* evictEntry(), the key chosen by the strategy
KeyToEvict(cfg, c) ==
    IF cfg.strategy = "LRU"
    THEN IF c.accessOrder = <<>> THEN Undefined ELSE c.accessOrder[1]
    ELSE OldestKey(c.cache)

\* evictEntry() that takes the most recently used key under LRU
EvictEntryNewest(cfg, c) ==
    LET keyToEvict == IF cfg.strategy = "LRU"
                      THEN IF c.accessOrder = <<>> THEN Undefined
                           ELSE c.accessOrder[Len(c.accessOrder)]
                      ELSE OldestKey(c.cache)
    IN  IF keyToEvict # Undefined
        THEN [c EXCEPT !.cache = MapDelete(c.cache, keyToEvict),
                       !.accessOrder = RemoveFromAccessOrder(c.accessOrder,
                                                             keyToEvict),
                       !.metrics.evictions = @ + 1]
        ELSE c

\* evictEntry()
EvictEntry(cfg, c) ==
    LET keyToEvict == KeyToEvict(cfg, c) IN
    IF keyToEvict # Undefined
    THEN [c EXCEPT !.cache = MapDelete(c.cache, keyToEvict),
                   !.accessOrder = RemoveFromAccessOrder(c.accessOrder,
                                                         keyToEvict),
                   !.metrics.evictions = @ + 1]
    ELSE c

\* ensureSpace(), lines 379-381 with a loop test that lets the cache fill
\* one entry past maxSize
RECURSIVE EvictWhileFullLate(_, _)
EvictWhileFullLate(cfg, c) ==
    IF Len(c.cache) > cfg.maxSize /\ KeyToEvict(cfg, c) # Undefined
    THEN EvictWhileFullLate(cfg, EvictEntry(cfg, c))
    ELSE c

\* ensureSpace(), lines 379-381: evict while the cache is at or above
\* maxSize.  With no key to evict the loop of the source would not end;
\* every stored key is a non-empty string and, under LRU, is listed in
\* accessOrder, so that case is not reached.
RECURSIVE EvictWhileFull(_, _)
EvictWhileFull(cfg, c) ==
    IF Len(c.cache) >= cfg.maxSize /\ KeyToEvict(cfg, c) # Undefined
    THEN EvictWhileFull(cfg, EvictEntry(cfg, c))
    ELSE c

\* ensureSpace() that evicts before it removes the expired entries
EnsureSpaceEvictsFirst(cfg, c, t) == Cleanup(EvictWhileFull(cfg, c), t).c

\* ensureSpace()
EnsureSpace(cfg, c, t) == EvictWhileFull(cfg, Cleanup(c, t).c)

\* set(), line 175: options.ttl || config.defaultTtl
TtlOf(cfg, ttl) == IF ttl = None \/ ttl = 0 THEN cfg.defaultTtl ELSE ttl

\* set(), lines 189-198: the entry stored
NewEntry(cfg, key, value, ttl, tags, t) ==
    [key |-> key, value |-> value, createdAt |-> t,
     expiresAt |-> t + TtlOf(cfg, ttl), lastAccessed |-> t, accessCount |-> 0,
     size |-> CalculateSize(value), tags |-> tags]

\* set(), line 179: the entry is too large to be stored
SetIsRejected(cfg, value) ==
    cfg.maxEntrySize # 0 /\ CalculateSize(value) > cfg.maxEntrySize

\* set() that stores the entry without its value
SetDropsValue(cfg, c, key, value, ttl, tags, t) ==
    IF SetIsRejected(cfg, value)
    THEN c
    ELSE LET c1 == EnsureSpace(cfg, c, t)
             entry == [NewEntry(cfg, key, value, ttl, tags, t)
                         EXCEPT !.value = "a"]
             c2 == [c1 EXCEPT !.cache = MapSet(c1.cache, entry)]
             c3 == IF cfg.strategy = "LRU"
                   THEN [c2 EXCEPT !.accessOrder =
                                     UpdateAccessOrder(c2.accessOrder, key)]
                   ELSE c2
         IN  UpdateMetrics(c3)

\* set() that makes room before it looks at the size of the value
SetEnsuresSpaceFirst(cfg, c, key, value, ttl, tags, t) ==
    LET c1 == EnsureSpace(cfg, c, t)
        entry == NewEntry(cfg, key, value, ttl, tags, t)
        c2 == [c1 EXCEPT !.cache = MapSet(c1.cache, entry)]
        c3 == IF cfg.strategy = "LRU"
              THEN [c2 EXCEPT !.accessOrder =
                                UpdateAccessOrder(c2.accessOrder, key)]
              ELSE c2
    IN  IF SetIsRejected(cfg, value) THEN UpdateMetrics(c1) ELSE UpdateMetrics(c3)

\* set(), lines 189-207: what follows 'await this.ensureSpace(size)', for
\* a call that read the clock at t
Insert(cfg, c, key, value, ttl, tags, t) ==
    LET entry == NewEntry(cfg, key, value, ttl, tags, t)
        c2 == [c EXCEPT !.cache = MapSet(c.cache, entry)]
        c3 == IF cfg.strategy = "LRU"
              THEN [c2 EXCEPT !.accessOrder =
                                UpdateAccessOrder(c2.accessOrder, key)]
              ELSE c2
    IN  UpdateMetrics(c3)

\* set(), run to completion
Set(cfg, c, key, value, ttl, tags, t) ==
    IF SetIsRejected(cfg, value)
    THEN c
    ELSE LET c1 == EnsureSpace(cfg, c, t)
             entry == NewEntry(cfg, key, value, ttl, tags, t)
             c2 == [c1 EXCEPT !.cache = MapSet(c1.cache, entry)]
             c3 == IF cfg.strategy = "LRU"
                   THEN [c2 EXCEPT !.accessOrder =
                                     UpdateAccessOrder(c2.accessOrder, key)]
                   ELSE c2
         IN  UpdateMetrics(c3)

\* get(): the cache after the call and the value returned, None for null
Get(cfg, c, key, t) ==
    IF ~HasKey(c.cache, key)
    THEN [c |-> [c EXCEPT !.metrics.misses = @ + 1], result |-> Null]
    ELSE LET entry == EntryOf(c.cache, key) IN
         IF IsExpired(entry, t)
         THEN [c |-> [c EXCEPT
                        !.cache = MapDelete(c.cache, key),
                        !.accessOrder = RemoveFromAccessOrder(c.accessOrder, key),
                        !.metrics.expirations = @ + 1,
                        !.metrics.misses = @ + 1],
               result |-> Null]
         ELSE LET touched == [entry EXCEPT !.lastAccessed = t,
                                           !.accessCount = @ + 1]
                  c1 == [c EXCEPT !.cache = MapSet(c.cache, touched),
                                  !.metrics.hits = @ + 1]
              IN  [c |-> IF cfg.strategy = "LRU"
                         THEN [c1 EXCEPT !.accessOrder =
                                           UpdateAccessOrder(c1.accessOrder, key)]
                         ELSE c1,
                   result |-> entry.value]

\* delete()
Delete(c, key) ==
    IF HasKey(c.cache, key)
    THEN [c |-> UpdateMetrics(
                  [c EXCEPT !.cache = MapDelete(c.cache, key),
                            !.accessOrder =
                              RemoveFromAccessOrder(c.accessOrder, key)]),
          result |-> TRUE]
    ELSE [c |-> c, result |-> FALSE]

\* invalidateByTags() that removes the entries all of whose tags are given
InvalidateByTagsEvery(c, tags) ==
    LET hit(e) == \A tag \in e.tags : tag \in tags
        gone == SelectSeq(c.cache, hit)
        c1 == [c EXCEPT
                 !.cache = SelectSeq(c.cache, LAMBDA e : ~hit(e)),
                 !.accessOrder = RemoveAllFromAccessOrder(c.accessOrder,
                                                          KeySeq(gone))]
    IN  [c |-> UpdateMetrics(c1), result |-> Len(gone)]

\* invalidateByTags()
InvalidateByTags(c, tags) ==
    LET hit(e) == \E tag \in e.tags : tag \in tags
        gone == SelectSeq(c.cache, hit)
        c1 == [c EXCEPT
                 !.cache = SelectSeq(c.cache, LAMBDA e : ~hit(e)),
                 !.accessOrder = RemoveAllFromAccessOrder(c.accessOrder,
                                                          KeySeq(gone))]
    IN  [c |-> UpdateMetrics(c1), result |-> Len(gone)]

\* clear()
Clear(c) == UpdateMetrics([c EXCEPT !.cache = <<>>, !.accessOrder = <<>>])

\* the cache's fields as one record
TheCache == [cache |-> cache, accessOrder |-> accessOrder, metrics |-> metrics]

\* a call on the cache: its name, its key (Undefined if it takes none), its
\* tags, the time, the value passed to set or returned by get, the
\* number or boolean (1 for true) returned by the other calls, and the
\* ttl option set is called with
CacheCall(op, key, tags, t, value, count) ==
    [op |-> op, key |-> key, tags |-> tags, at |-> t, value |-> value,
     count |-> count, ttl |-> None]

CacheInit ==
    /\ cacheConfig \in CacheConfig
    /\ cache = NewCache.cache
    /\ accessOrder = NewCache.accessOrder
    /\ metrics = NewCache.metrics
    /\ cacheLast = CacheCall("new", Undefined, {}, now, Null, 0)
    /\ cacheOps = 0
    /\ touchOrder = <<>>

\* the cache is not used
CacheIdle ==
    /\ cacheConfig = [maxSize |-> 1, defaultTtl |-> 2 * MsPerTick,
                      strategy |-> "LRU", maxEntrySize |-> 4]
    /\ cache = NewCache.cache
    /\ accessOrder = NewCache.accessOrder
    /\ metrics = NewCache.metrics
    /\ cacheLast = CacheCall("new", Undefined, {}, 0, Null, 0)
    /\ cacheOps = 0
    /\ touchOrder = <<>>

\* the cache's fields become those of c
CacheBecomes(c) ==
    /\ cache' = c.cache
    /\ accessOrder' = c.accessOrder
    /\ metrics' = c.metrics

\* the keys of order that store still holds
StillStored(order, store) == SelectSeq(order, LAMBDA k : HasKey(store, k))

\* one more step is taken
CacheStep ==
    /\ cacheOps < MaxCacheSteps
    /\ cacheOps' = cacheOps + 1
    /\ UNCHANGED cacheConfig
    /\ UNCHANGED restCache
    /\ UNCHANGED pending

\* one more call is made on the cache
CacheCalled ==
    /\ CacheStep
    /\ UNCHANGED now

\* await set(key, value, {ttl, tags})
CacheSet ==
    /\ CacheCalled
    /\ \E key \in Keys, o \in SetChoices :
         /\ CacheBecomes(Set(cacheConfig, TheCache, key, o.value, o.ttl,
                             o.tags, now))
         /\ cacheLast' = [CacheCall("set", key, o.tags, now, o.value, 0)
                            EXCEPT !.ttl = o.ttl]
         /\ touchOrder' = StillStored(IF SetIsRejected(cacheConfig, o.value)
                                    THEN touchOrder
                                    ELSE UpdateAccessOrder(touchOrder, key), cache')

\* await get(key)
CacheGet ==
    /\ CacheCalled
    /\ \E key \in Keys :
         LET r == Get(cacheConfig, TheCache, key, now) IN
         /\ CacheBecomes(r.c)
         /\ cacheLast' = CacheCall("get", key, {}, now, r.result, 0)
         /\ touchOrder' = StillStored(IF r.result = Null
                                    THEN touchOrder
                                    ELSE UpdateAccessOrder(touchOrder, key), cache')

\* await delete(key)
CacheDelete ==
    /\ CacheCalled
    /\ \E key \in Keys :
         LET r == Delete(TheCache, key) IN
         /\ CacheBecomes(r.c)
         /\ cacheLast' = CacheCall("delete", key, {}, now, Null,
                                  IF r.result THEN 1 ELSE 0)
         /\ touchOrder' = StillStored(touchOrder, cache')

\* await invalidateByTags(tags)
CacheInvalidateByTags ==
    /\ CacheCalled
    /\ \E tags \in InvalidateTagChoices :
         LET r == InvalidateByTags(TheCache, tags) IN
         /\ CacheBecomes(r.c)
         /\ cacheLast' = CacheCall("invalidateByTags", Undefined, tags, now,
                                  Null, r.result)
         /\ touchOrder' = StillStored(touchOrder, cache')

\* await cleanup(), from a caller or from the cleanup timer
CacheCleanup ==
    /\ CacheCalled
    /\ LET r == Cleanup(TheCache, now) IN
       /\ CacheBecomes(r.c)
       /\ cacheLast' = CacheCall("cleanup", Undefined, {}, now, Null, r.result)
       /\ touchOrder' = StillStored(touchOrder, cache')

\* await clear()
CacheClear ==
    /\ CacheCalled
    /\ CacheBecomes(Clear(TheCache))
    /\ cacheLast' = CacheCall("clear", Undefined, {}, now, Null, 0)
    /\ touchOrder' = StillStored(touchOrder, cache')

\* the clock advances while the cache is in use
CacheTick ==
    /\ CacheStep
    /\ now' = now + MsPerTick
    /\ UNCHANGED <<cache, accessOrder, metrics, cacheLast, touchOrder>>

---------------------------------------------------------------------------
(* CacheManager.set called without await.  set is an async function with   *)
(* two awaits on its path: 'await this.cleanup()' in ensureSpace and        *)
(* 'await this.ensureSpace(size)' in set.  A call runs up to the first,     *)
(* resumes for the eviction loop, and resumes again for the insertion;      *)
(* suspended calls resume in the order in which they were suspended.        *)

\* most set calls suspended at a time
MaxPending == 2

\* set(key, value, {ttl, tags}) is called and not awaited: the size check
\* and the body of cleanup() run, then the call is suspended
AsyncSetStart ==
    /\ cacheOps < MaxCacheSteps
    /\ Len(pending) < MaxPending
    /\ cacheOps' = cacheOps + 1
    /\ \E key \in Keys, o \in SetChoices :
         /\ cacheLast' = [CacheCall("set", key, o.tags, now, o.value, 0)
                            EXCEPT !.ttl = o.ttl]
         /\ IF SetIsRejected(cacheConfig, o.value)
            THEN UNCHANGED <<cache, accessOrder, metrics, pending>>
            ELSE /\ CacheBecomes(Cleanup(TheCache, now).c)
                 /\ pending' = Append(pending,
                                      [pc |-> "evict", key |-> key,
                                       value |-> o.value, ttl |-> o.ttl,
                                       tags |-> o.tags, at |-> now])
    /\ touchOrder' = StillStored(touchOrder, cache')
    /\ UNCHANGED <<now, cacheConfig>>
    /\ UNCHANGED restCache

\* the suspended call at the head resumes: in ensureSpace for the eviction
\* loop, after which it is suspended again, or in set for the insertion
AsyncSetResume ==
    /\ pending # <<>>
    /\ LET h == Head(pending) IN
       IF h.pc = "evict"
       THEN /\ CacheBecomes(EvictWhileFull(cacheConfig, TheCache))
            /\ pending' = Append(Tail(pending), [h EXCEPT !.pc = "insert"])
            /\ touchOrder' = StillStored(touchOrder, cache')
       ELSE /\ CacheBecomes(Insert(cacheConfig, TheCache, h.key, h.value, h.ttl,
                                   h.tags, h.at))
            /\ pending' = Tail(pending)
            /\ touchOrder' = StillStored(UpdateAccessOrder(touchOrder, h.key),
                                         cache')
    /\ UNCHANGED <<now, cacheConfig, cacheLast, cacheOps>>
    /\ UNCHANGED restCache

\* the clock advances once every suspended call has resumed and finished
AsyncTick ==
    /\ pending = <<>>
    /\ CacheTick

---------------------------------------------------------------------------
(* UsersApi: built with rateLimitOptions, hence with a RateLimiter, with   *)
(* the breaker and the cache it always has, and without authService and    *)
(* performanceMonitor                                                       *)

\* most calls made on one UsersApi
MaxApiCalls == 3

\* the validated body of a response, as it is cached and returned
Body == "u"

\* getCacheTags(userId)
GetCacheTags(userId) ==
    IF userId = Undefined THEN {"users"} ELSE {"users", "user:" \o userId}

\* generateCacheKey("GET", endpoint)
GenerateCacheKey(endpoint) == "GET:" \o endpoint

\* the reads, getUsers() and getUser(1), with their cache key and the tags
\* they cache the response under
Reads ==
    { [op |-> "getUsers", key |-> GenerateCacheKey("/users"),
       tags |-> GetCacheTags(Undefined)],
      [op |-> "getUser", key |-> GenerateCacheKey("/users/1"),
       tags |-> GetCacheTags("1")] }

\* the writes, createUser(data) and deleteUser(1), with the tags they
\* invalidate after a success
Writes ==
    { [op |-> "createUser", key |-> Undefined, tags |-> GetCacheTags(Undefined)],
      [op |-> "deleteUser", key |-> Undefined, tags |-> GetCacheTags("1")] }

\* no call made yet
ApiIdle ==
    [pc |-> "idle", op |-> "none", key |-> Undefined, tags |-> {},
     result |-> Null, calls |-> 0, httpCalls |-> 0]

\* checkCache() that reports a miss whatever the cache holds
CheckCacheAlwaysMiss(cfg, c, key, t) ==
    [c |-> Get(cfg, c, key, t).c, result |-> Null]

\* checkCache(): the value cache.get(key) resolves to, or null
CheckCache(cfg, c, key, t) ==
    LET r == Get(cfg, c, key, t) IN
    [c |-> r.c, result |-> IF r.result # Null THEN r.result ELSE Null]

\* the call a after rateLimiter.execute has run up to its next await,
\* return or throw, leaving its record as e
ApiAfter(a, e) ==
    [a EXCEPT !.pc = IF e.pc = "done" THEN "done" ELSE "running",
              !.result = CASE e.pc # "done" -> Null
                           [] e.outcome = "ok" -> Body
                           [] OTHER -> e.outcome,
              !.httpCalls = IF e.pc = "fn" THEN a.httpCalls + 1 ELSE a.httpCalls]

\* executeWithRateLimit(fn): one iteration of rateLimiter.execute's loop,
\* from record e, on behalf of the call a
ExecuteWithRateLimit(a, e) ==
    LET r == ExecuteIteration(options, e, tokens, lastRefill, now) IN
    /\ tokens' = r.tokens
    /\ lastRefill' = r.lastRefill
    /\ ex' = r.ex
    /\ rlLast' = IF r.checked THEN RlCall("execute", now, r.status) ELSE rlLast
    /\ Admissions(r.lastRefill, r.checked /\ r.status.allowed)
    /\ api' = ApiAfter(a, r.ex)

\* await getUsers() / getUser(1): the cache lookup and, on a miss, the call
\* up to its first await inside rateLimiter.execute
ApiRead ==
    /\ api.pc # "running"
    /\ api.calls < MaxApiCalls
    /\ \E rd \in Reads :
         LET looked == CheckCache(cacheConfig, TheCache, rd.key, now)
             a == [ApiIdle EXCEPT !.op = rd.op, !.key = rd.key, !.tags = rd.tags,
                                  !.calls = api.calls + 1,
                                  !.httpCalls = api.httpCalls]
         IN  /\ CacheBecomes(looked.c)
             /\ IF looked.result # Null
                THEN /\ api' = [a EXCEPT !.pc = "done", !.result = looked.result]
                     /\ UNCHANGED <<tokens, lastRefill, ex, rlLast, admitted,
                                    admittedAt>>
                ELSE ExecuteWithRateLimit(a, ExIdle)
    /\ UNCHANGED <<authApiVars, pending, built, now, options, cbVars>>
    /\ UNCHANGED <<cacheConfig, cacheLast, cacheOps, touchOrder>>

\* await createUser(data) / deleteUser(1): the call up to its first await
\* inside rateLimiter.execute
ApiWrite ==
    /\ api.pc # "running"
    /\ api.calls < MaxApiCalls
    /\ \E wr \in Writes :
         ExecuteWithRateLimit([ApiIdle EXCEPT !.op = wr.op, !.tags = wr.tags,
                                              !.calls = api.calls + 1,
                                              !.httpCalls = api.httpCalls],
                              ExIdle)
    /\ UNCHANGED <<authApiVars, pending, built, now, options, cbVars, cacheVars>>

\* the backoff sleep of rateLimiter.execute ends inside a call
ApiWake ==
    /\ api.pc = "running"
    /\ ex.pc = "sleep"
    /\ now >= ex.wake
    /\ ExecuteWithRateLimit(api, ex)
    /\ UNCHANGED <<authApiVars, pending, built, now, options, cbVars, cacheVars>>

\* the cache after fetch settled with an error although a write invalidates
\* its tags whatever the outcome
CacheAfterHttpInvalidatesAlways(cfg, c, a, result, t) ==
    CASE a.key = Undefined -> InvalidateByTags(c, a.tags).c
      [] result = "error" -> c
      [] OTHER -> Set(cfg, c, a.key, Body, None, a.tags, t)

\* the cache after fetch settled inside the call a: an error is thrown
\* before the cache is touched, a read calls cacheResponse(), a write
\* calls invalidateCache()
CacheAfterHttp(cfg, c, a, result, t) ==
    CASE result = "error" -> c
      [] a.key # Undefined -> Set(cfg, c, a.key, Body, None, a.tags, t)
      [] OTHER -> InvalidateByTags(c, a.tags).c

\* fetch settles inside a call: with a response that validates, which a
\* read caches and after which a write invalidates its tags, or with an
\* error, which is thrown
ApiHttpSettles ==
    /\ api.pc = "running"
    /\ ex.pc = "fn"
    /\ \E result \in {"ok", "error"} :
         /\ ex' = FnSettles(options, [ex EXCEPT !.fnResult = result], now)
         /\ api' = ApiAfter(api, ex')
         /\ CacheBecomes(CacheAfterHttp(cacheConfig, TheCache, api, result, now))
    /\ UNCHANGED <<now, options, tokens, lastRefill, rlLast, admitted, admittedAt>>
    /\ UNCHANGED <<authApiVars, pending, built, cbVars, cacheConfig, cacheLast, cacheOps, touchOrder>>

---------------------------------------------------------------------------
(* UsersApi built with an AuthService and without rateLimitOptions, its    *)
(* methods called by callers that do not wait for each other               *)

\* AuthOptions.sessionTimeoutMs
SessionTimeoutMs == MsPerTick

\* the callers of the UsersApi
Callers == {"c1", "c2"}

\* AuthService.session is null
NoSession == [active |-> FALSE, expiresAt |-> None, lastActivity |-> None]

\* the session authenticate() creates
NewSession(t) ==
    [active |-> TRUE, expiresAt |-> t + SessionTimeoutMs, lastActivity |-> t]

\* AuthService.validateSession(): the session afterwards and the code of
\* the AuthenticationError thrown, "none" when the session is returned
ValidateSession(s, t) ==
    IF ~s.active
    THEN [session |-> s, error |-> "NO_SESSION"]
    ELSE IF t > s.expiresAt
         THEN [session |-> NoSession, error |-> "SESSION_EXPIRED"]
         ELSE IF t - s.lastActivity > SessionTimeoutMs
              THEN [session |-> NoSession, error |-> "SESSION_TIMEOUT"]
              ELSE [session |-> [s EXCEPT !.lastActivity = t],
                    error |-> "none"]

\* executeWithAuth(fn, id, ["user"]): validateSession(), then
\* checkAuthorization(), which validates again and finds the role "user"
\* every session has
ExecuteWithAuth(s, t) ==
    LET v == ValidateSession(s, t)
    IN  IF v.error # "none" THEN v ELSE ValidateSession(v.session, t)

\* the body the server sends for user 1 at a version
UserValue(version) == "u" \o ToString(version)

\* updateUser(1, data), patchUser(1, data), deleteUser(1)
UserWrites ==
    { [op |-> o, key |-> Undefined, tags |-> GetCacheTags("1")] :
        o \in {"updateUser", "patchUser", "deleteUser"} }

\* a caller that made no call
CallerIdle ==
    [pc |-> "idle", op |-> "none", key |-> Undefined, tags |-> {},
     response |-> Null, result |-> "none", value |-> Null,
     sessionValid |-> FALSE, calls |-> 0]

\* before any call: nobody is authenticated, the server holds version 0
AuthApiIdle ==
    /\ session = NoSession
    /\ server = [version |-> 0, exists |-> TRUE]
    /\ callers = [c \in Callers |-> CallerIdle]

\* calls made so far
TotalCalls == callers["c1"].calls + callers["c2"].calls

\* the call a caller starts, with the session as it is at the time of the call
CallOf(c, rq) ==
    [CallerIdle EXCEPT !.op = rq.op, !.key = rq.key, !.tags = rq.tags,
                       !.calls = callers[c].calls + 1,
                       !.sessionValid =
                           (ExecuteWithAuth(session, now).error = "none")]

\* getUsers() / getUser(1): checkCache returns the cached value, or
\* executeWithAuth throws, or fetch is called
CallerReads(c) ==
    /\ callers[c].pc \in {"idle", "done"}
    /\ TotalCalls < MaxApiCalls
    /\ \E rd \in Reads :
         LET looked == CheckCache(cacheConfig, TheCache, rd.key, now)
             auth == ExecuteWithAuth(session, now)
             call == CallOf(c, rd)
         IN  /\ CacheBecomes(looked.c)
             /\ IF looked.result # Null
                THEN /\ callers' = [callers EXCEPT ![c] =
                                      [call EXCEPT !.pc = "done",
                                                   !.result = "data",
                                                   !.value = looked.result]]
                     /\ UNCHANGED session
                ELSE /\ session' = auth.session
                     /\ callers' = [callers EXCEPT ![c] =
                                      IF auth.error # "none"
                                      THEN [call EXCEPT !.pc = "done",
                                              !.result = "AuthenticationError"]
                                      ELSE [call EXCEPT !.pc = "fetching"]]
    /\ UNCHANGED <<now, server, cacheConfig, cacheLast, cacheOps, touchOrder>>
    /\ UNCHANGED <<rlVars, cbVars, api, built, pending>>

\* updateUser / patchUser / deleteUser of user 1: executeWithAuth throws, or
\* fetch is called
CallerWrites(c) ==
    /\ callers[c].pc \in {"idle", "done"}
    /\ TotalCalls < MaxApiCalls
    /\ \E wr \in UserWrites :
         LET auth == ExecuteWithAuth(session, now)
             call == CallOf(c, wr)
         IN  /\ session' = auth.session
             /\ callers' = [callers EXCEPT ![c] =
                              IF auth.error # "none"
                              THEN [call EXCEPT !.pc = "done",
                                      !.result = "AuthenticationError"]
                              ELSE [call EXCEPT !.pc = "fetching"]]
    /\ UNCHANGED <<now, server, rlVars, cbVars, cacheVars, api, built, pending>>

\* the server handles the request of a call: it answers a read with what it
\* holds and applies a write, or the request fails (network error, 4xx, 5xx)
ServerHandles(c) ==
    /\ callers[c].pc = "fetching"
    /\ \E ok \in BOOLEAN :
         LET found == ok /\ (server.exists \/ callers[c].op = "getUsers") IN
         IF callers[c].key # Undefined
         THEN /\ callers' = [callers EXCEPT
                               ![c].pc = "responding",
                               ![c].response = IF found
                                               THEN UserValue(server.version)
                                               ELSE "error"]
              /\ UNCHANGED server
         ELSE /\ callers' = [callers EXCEPT
                               ![c].pc = "responding",
                               ![c].response = IF found THEN "ok" ELSE "error"]
              /\ server' = IF found
                           THEN [version |-> server.version + 1,
                                 exists |-> callers[c].op # "deleteUser"]
                           ELSE server
    /\ UNCHANGED <<now, session, rlVars, cbVars, cacheVars, api, built, pending>>

\* the call resumes after await fetch: it throws on a failed request,
\* cacheResponse stores what a read fetched, invalidateCache runs for a write
ResponseArrives(c) ==
    /\ callers[c].pc = "responding"
    /\ LET call == callers[c] IN
       CASE call.response = "error" ->
              /\ callers' = [callers EXCEPT ![c].pc = "done",
                                            ![c].result = "HttpError"]
              /\ UNCHANGED <<cache, accessOrder, metrics>>
         [] call.response # "error" /\ call.key # Undefined ->
              /\ callers' = [callers EXCEPT ![c].pc = "done",
                                            ![c].result = "data",
                                            ![c].value = call.response]
              /\ CacheBecomes(Set(cacheConfig, TheCache, call.key,
                                  call.response, None, call.tags, now))
         [] OTHER ->
              /\ callers' = [callers EXCEPT ![c].pc = "done",
                                            ![c].result = "ok"]
              /\ CacheBecomes(InvalidateByTags(TheCache, call.tags).c)
    /\ UNCHANGED <<now, session, server, cacheConfig, cacheLast, cacheOps,
                   touchOrder>>
    /\ UNCHANGED <<rlVars, cbVars, api, built, pending>>

\* authService.authenticate("user", "user123")
Authenticate ==
    /\ session' = NewSession(now)
    /\ UNCHANGED <<now, server, callers>>
    /\ UNCHANGED <<rlVars, cbVars, cacheVars, api, built, pending>>

\* authService.logout()
Logout ==
    /\ session.active
    /\ session' = NoSession
    /\ UNCHANGED <<now, server, callers>>
    /\ UNCHANGED <<rlVars, cbVars, cacheVars, api, built, pending>>

---------------------------------------------------------------------------
(* Construction: the three constructors called with any numbers *)

\* a count given to a constructor: negative, zero or positive
CountChoices == {-1, 0, 1}

\* a duration given to a constructor: negative, zero or positive
DurationChoices == {-MsPerTick, 0, MsPerTick}

\* no constructor was called
NotBuilt ==
    [component |-> "none", config |-> <<>>, outcome |-> "none", timer |-> "none"]

\* a constructor call: the class, the argument, "instance" or "Error", and
\* the cleanup timer of the object: "none", "running" or "cleared"
Built(component, cfg, outcome, timer) ==
    [component |-> component, config |-> cfg, outcome |-> outcome,
     timer |-> timer]

\* CircuitBreaker.validateConfig(): no Error is thrown
BreakerConfigIsValid(cfg) ==
    ~ \/ cfg.failureThreshold <= 0
      \/ cfg.successThreshold <= 0
      \/ cfg.timeout <= 0
      \/ cfg.monitoringPeriod <= 0

\* CacheManager.validateConfig(): no Error is thrown
CacheConfigIsValid(cfg) ==
    ~ \/ cfg.maxSize <= 0
      \/ cfg.defaultTtl <= 0
      \/ cfg.cleanupInterval <= 0

\* new RateLimiter({maxRequests, windowMs}): the options are merged with
\* the defaults and stored, and the bucket is filled, whatever they are
NewRateLimiter ==
    /\ \E m \in CountChoices, w \in DurationChoices :
         /\ options' = [maxRequests |-> m, windowMs |-> w, enableRetry |-> FALSE,
                        maxRetries |-> 3, retryDelayMs |-> 1000,
                        exponentialBackoff |-> TRUE]
         /\ tokens' = m
         /\ built' = Built("RateLimiter", [maxRequests |-> m, windowMs |-> w],
                           "instance", "none")
    /\ lastRefill' = now
    /\ rlLast' = RlCall("new", now, NoStatus)
    /\ ex' = ExIdle
    /\ admitted' = 0
    /\ admittedAt' = <<>>
    /\ UNCHANGED <<now, cbVars, cacheVars, api, pending, authApiVars>>

\* new CircuitBreaker(name, config): validateConfig() throws, or the
\* breaker starts CLOSED
NewCircuitBreaker ==
    /\ \E cfg \in [failureThreshold : CountChoices, successThreshold : CountChoices,
                   timeout : DurationChoices, monitoringPeriod : DurationChoices] :
         IF BreakerConfigIsValid(cfg)
         THEN /\ built' = Built("CircuitBreaker", cfg, "instance", "none")
              /\ config' = [failureThreshold |-> cfg.failureThreshold,
                            successThreshold |-> cfg.successThreshold,
                            timeout |-> cfg.timeout,
                            monitoringPeriod |-> cfg.monitoringPeriod,
                            isFailure |-> FALSE, fallback |-> FALSE]
              /\ cb' = NewBreaker
              /\ cbLast' = CbStep("new", now, NewBreaker)
         ELSE /\ built' = Built("CircuitBreaker", cfg, "Error", "none")
              /\ UNCHANGED <<config, cb, cbLast>>
    /\ UNCHANGED <<inflight, fresh, forced, halfOpenSuccesses>>
    /\ UNCHANGED <<now, rlVars, cacheVars, api, pending, authApiVars>>

\* new CacheManager(name, config): startCleanupTimer() starts the timer,
\* then validateConfig() throws, or the cache starts empty
NewCacheManager ==
    /\ \E cfg \in [maxSize : CountChoices, defaultTtl : DurationChoices,
                   cleanupInterval : DurationChoices] :
         IF CacheConfigIsValid(cfg)
         THEN /\ built' = Built("CacheManager", cfg, "instance", "running")
              /\ cacheConfig' = [maxSize |-> cfg.maxSize,
                                 defaultTtl |-> cfg.defaultTtl,
                                 strategy |-> "LRU", maxEntrySize |-> 4]
              /\ CacheBecomes(NewCache)
              /\ cacheLast' = CacheCall("new", Undefined, {}, now, Null, 0)
              /\ touchOrder' = <<>>
         ELSE /\ built' = Built("CacheManager", cfg, "Error", "running")
              /\ UNCHANGED <<cacheConfig, cache, accessOrder, metrics, cacheLast,
                             touchOrder>>
    /\ UNCHANGED cacheOps
    /\ UNCHANGED <<now, rlVars, cbVars, api, pending, authApiVars>>

\* the constructed CacheManager is the one the caller holds
HasCacheInstance ==
    /\ built.component = "CacheManager"
    /\ built.outcome = "instance"

\* await set(key, value, options) on the constructed cache
BuiltCacheSet ==
    /\ HasCacheInstance
    /\ CacheSet

\* the clock advances while the constructed cache is in use
BuiltCacheTick ==
    /\ HasCacheInstance
    /\ CacheTick

\* the callback startCleanupTimer() gave to setInterval runs: cleanup() on
\* the store of the object the timer belongs to, which for an object whose
\* constructor threw is a store nobody else holds
CleanupTimerFires ==
    /\ built.component = "CacheManager"
    /\ built.timer = "running"
    /\ IF built.outcome = "instance" THEN CacheCleanup ELSE UNCHANGED vars

\* destroy(): the timer is cleared, the store and the access order emptied
CacheDestroy ==
    /\ HasCacheInstance
    /\ cacheOps < MaxCacheSteps
    /\ cacheOps' = cacheOps + 1
    /\ built' = [built EXCEPT !.timer = "cleared"]
    /\ cache' = <<>>
    /\ accessOrder' = <<>>
    /\ cacheLast' = CacheCall("destroy", Undefined, {}, now, Null, 0)
    /\ touchOrder' = <<>>
    /\ UNCHANGED <<cacheConfig, metrics>>
    /\ UNCHANGED <<now, rlVars, cbVars, api, pending, authApiVars>>

---------------------------------------------------------------------------
(* The clock and the specifications *)

\* the clock advances
Tick ==
    /\ now + MsPerTick <= MaxTime * MsPerTick
    /\ now' = now + MsPerTick
    /\ admittedAt' = RecentOnly(options, admittedAt, now')
    /\ UNCHANGED <<options, tokens, lastRefill, rlLast, ex, admitted>>
    /\ UNCHANGED <<cbVars, cacheVars, api, built, pending, authApiVars>>

RLNext ==
    \/ RLCheckLimit
    \/ RLGetStatus
    \/ RLGetHeaders
    \/ RLReset
    \/ RLExecuteStart
    \/ RLExecuteFnSettles
    \/ RLExecuteWake
    \/ Tick

InitRL ==
    /\ now = 0
    /\ RLInit
    /\ CBIdle
    /\ CacheIdle
    /\ api = ApiIdle
    /\ built = NotBuilt
    /\ pending = <<>>
    /\ AuthApiIdle

\* one RateLimiter and its callers
SpecRL == InitRL /\ [][RLNext]_vars

CBNext ==
    \/ CBExecute
    \/ CBOperationSucceeds
    \/ CBOperationFails
    \/ CBForceOpen
    \/ CBForceClose
    \/ Tick

InitCB ==
    /\ now = 0
    /\ CBInit
    /\ RLIdle
    /\ CacheIdle
    /\ api = ApiIdle
    /\ built = NotBuilt
    /\ pending = <<>>
    /\ AuthApiIdle

\* one CircuitBreaker and its callers
SpecCB == InitCB /\ [][CBNext]_vars

CacheNext ==
    \/ CacheSet
    \/ CacheGet
    \/ CacheDelete
    \/ CacheInvalidateByTags
    \/ CacheCleanup
    \/ CacheClear
    \/ CacheTick

InitCache ==
    /\ now = 0
    /\ CacheInit
    /\ RLIdle
    /\ CBIdle
    /\ api = ApiIdle
    /\ built = NotBuilt
    /\ pending = <<>>
    /\ AuthApiIdle

\* one CacheManager whose callers await every call
SpecCache == InitCache /\ [][CacheNext]_vars

\* the owner of the breaker the UsersApi was built with calls forceOpen()
\* on it while it is closed
ApiBreakerForceOpen ==
    /\ cb.state = "CLOSED"
    /\ CBForceOpen

CacheAsyncNext ==
    \/ AsyncSetStart
    \/ AsyncSetResume
    \/ AsyncTick

\* one CacheManager whose callers call set without awaiting it
SpecCacheAsync == InitCache /\ [][CacheAsyncNext]_vars

\* the constructors are called before the constructed cache is used
NewNext ==
    \/ cacheOps = 0 /\ NewRateLimiter
    \/ cacheOps = 0 /\ NewCircuitBreaker
    \/ cacheOps = 0 /\ NewCacheManager
    \/ BuiltCacheSet
    \/ BuiltCacheTick
    \/ CleanupTimerFires
    \/ CacheDestroy

InitNew ==
    /\ now = 0
    /\ RLIdle
    /\ CBIdle
    /\ CacheIdle
    /\ api = ApiIdle
    /\ built = NotBuilt
    /\ pending = <<>>
    /\ AuthApiIdle

\* constructor calls with valid and invalid arguments, and the life of
\* the cache that was constructed
SpecNew == InitNew /\ [][NewNext]_vars

ConcurrentNext ==
    \/ \E c \in Callers : CallerReads(c)
    \/ \E c \in Callers : CallerWrites(c)
    \/ \E c \in Callers : ServerHandles(c)
    \/ \E c \in Callers : ResponseArrives(c)
    \/ Authenticate
    \/ Logout
    \/ Tick

InitConcurrent ==
    /\ now = 0
    /\ RLIdle
    /\ CBIdle
    /\ CacheIdle
    /\ api = ApiIdle
    /\ built = NotBuilt
    /\ pending = <<>>
    /\ AuthApiIdle

\* a UsersApi with an AuthService, a cache of one entry and no limiter,
\* used by two callers at once
SpecConcurrent == InitConcurrent /\ [][ConcurrentNext]_vars

ApiNext ==
    \/ ApiRead
    \/ ApiWrite
    \/ ApiWake
    \/ ApiHttpSettles
    \/ ApiBreakerForceOpen
    \/ Tick

\* a UsersApi built with rateLimitOptions of one request per window, with a
\* breaker and with a cache of one entry
InitApi ==
    /\ now = 0
    /\ RLInit
    /\ options.maxRequests = 1
    /\ options.exponentialBackoff
    /\ CBIdle
    /\ CacheIdle
    /\ api = ApiIdle
    /\ built = NotBuilt
    /\ pending = <<>>
    /\ AuthApiIdle

\* one UsersApi with its limiter, breaker and cache, called by one caller
\* who awaits every call
SpecApi == InitApi /\ [][ApiNext]_vars

---------------------------------------------------------------------------
(* C1: on a limiter built with maxRequests >= 1 and windowMs >= 1, after  *)
(* any sequence of checkLimit, execute, getStatus, getHeaders and reset    *)
(* calls interleaved with time advances, 0 <= tokens <= maxRequests.       *)
C1_TokensInRange ==
    /\ tokens >= 0
    /\ tokens <= options.maxRequests

\* a check has just been admitted from a bucket refilled to its capacity
\* two windows or more after construction, and an execute call has finished
C1_Witness ==
    /\ rlLast.op = "checkLimit"
    /\ rlLast.status.allowed
    /\ tokens = options.maxRequests - 1
    /\ options.maxRequests >= 2
    /\ lastRefill >= 2 * options.windowMs
    /\ ex.pc = "done"

---------------------------------------------------------------------------
(* Steps of the breaker, as seen across one transition *)

\* this step is an execute call reaching its await, fallback or throw
IsExecuteStep == cbLast'.op = "execute" /\ cb'.totalRequests = cb.totalRequests + 1

\* this step is an awaited operation resolving
IsSuccessStep == cbLast'.op = "success" /\ inflight' # inflight

\* this step is an awaited operation rejecting with a qualifying error
IsQualifyingFailureStep ==
    cbLast'.op = "failure" /\ inflight' # inflight /\ cbLast'.qualifies

(* C2: while the breaker is CLOSED, a qualifying failure that leaves       *)
(* failureCount (after pruning) >= failureThreshold moves it to OPEN with  *)
(* nextAttemptTime = now + timeout; and on a new breaker that has seen      *)
(* only qualifying failures, failureThreshold of them within one           *)
(* monitoringPeriod open it, and fewer leave it CLOSED.                     *)
C2_OpensAtThreshold ==
    /\ (cbLast.op = "failure" /\ cbLast.qualifies /\ cbLast.before = "CLOSED"
        /\ cb.failureCount >= config.failureThreshold)
         => (cb.state = "OPEN"
             /\ cb.nextAttemptTime = cbLast.at + config.timeout)
    /\ (fresh.valid /\ fresh.failures < config.failureThreshold)
         => cb.state = "CLOSED"
    /\ (fresh.valid /\ fresh.failures >= config.failureThreshold /\ fresh.within)
         => cb.state = "OPEN"

\* the second of two failures, half a monitoringPeriod apart, has just
\* opened a new breaker whose failureThreshold is 2
C2_Witness ==
    /\ config.failureThreshold = 2
    /\ fresh.valid /\ fresh.failures = 2 /\ fresh.within
    /\ fresh.first < cbLast.at
    /\ cbLast.op = "failure" /\ cbLast.before = "CLOSED"
    /\ cb.state = "OPEN"

(* C3: an execute call made while the breaker is OPEN and now is before    *)
(* nextAttemptTime does not invoke the operation and leaves the state OPEN; *)
(* it returns the fallback's result when a fallback is configured and      *)
(* otherwise throws CircuitBreakerError carrying state OPEN and the        *)
(* metrics snapshot.                                                        *)
C3_FastFailWhileOpen ==
    [][ (IsExecuteStep /\ cb.state = "OPEN" /\ cb.nextAttemptTime # None
         /\ now < cb.nextAttemptTime)
          => /\ ~cbLast'.invoked
             /\ inflight' = inflight
             /\ cb'.state = "OPEN"
             /\ IF config.fallback
                THEN cbLast'.result = "fallback"
                ELSE /\ cbLast'.result = "CircuitBreakerError"
                     /\ cbLast'.errState = "OPEN"
                     /\ cbLast'.errMetrics = GetMetrics(config, cb', now) ]_vars

\* a call on an open breaker without fallback has just been fast-failed
C3_Witness ==
    /\ cbLast.op = "execute" /\ cbLast.before = "OPEN"
    /\ ~cbLast.invoked
    /\ cbLast.result = "CircuitBreakerError"
    /\ cbLast.errMetrics.totalRequests >= 2
    /\ cbLast.at < cb.nextAttemptTime

(* C4: the breaker goes from OPEN to HALF_OPEN only in an execute call     *)
(* made at now >= nextAttemptTime; that call invokes the operation and     *)
(* sets successCount to 0.  A step in which only the clock moves changes   *)
(* nothing of the breaker.                                                  *)
C4_HalfOpenOnlyOnCall ==
    [][ /\ (cb.state = "OPEN" /\ cb'.state = "HALF_OPEN")
           => /\ IsExecuteStep
              /\ cb.nextAttemptTime # None
              /\ now >= cb.nextAttemptTime
              /\ cbLast'.invoked
              /\ inflight'.HALF_OPEN = inflight.HALF_OPEN + 1
              /\ cb'.successCount = 0
        /\ (now' # now) => (cb' = cb /\ inflight' = inflight) ]_vars

\* a probe call has just moved the breaker to HALF_OPEN, and the success
\* counted earlier was wiped
C4_Witness ==
    /\ cbLast.op = "execute" /\ cbLast.before = "OPEN"
    /\ cbLast.successBefore >= 1
    /\ cb.state = "HALF_OPEN"
    /\ cbLast.invoked
    /\ cbLast.at >= cb.nextAttemptTime

\* the fields reset() clears
Cleared(b) ==
    /\ b.failureCount = 0
    /\ b.successCount = 0
    /\ b.failures = <<>>
    /\ b.nextAttemptTime = None

(* C5: in HALF_OPEN, a step of execute takes the breaker to CLOSED exactly *)
(* when it records a success and the successes recorded since HALF_OPEN    *)
(* was entered reach successThreshold; that transition clears              *)
(* failureCount, successCount and the failure timestamps and unsets        *)
(* nextAttemptTime.  (forceClose is the administrative override.)          *)
C5_ClosesAtSuccessThreshold ==
    [][ (cb.state = "HALF_OPEN" /\ cbLast'.op # "forceClose")
          => /\ (cb'.state = "CLOSED")
                  <=> (IsSuccessStep
                       /\ halfOpenSuccesses' >= config.successThreshold)
             /\ (cb'.state = "CLOSED") => Cleared(cb') ]_vars

\* the second probe success has just closed a breaker whose
\* successThreshold is 2
C5_Witness ==
    /\ config.successThreshold = 2
    /\ cbLast.op = "success" /\ cbLast.before = "HALF_OPEN"
    /\ halfOpenSuccesses = 2
    /\ cb.state = "CLOSED"
    /\ Cleared(cb)

(* C6: in HALF_OPEN one qualifying failure moves the breaker to OPEN with  *)
(* nextAttemptTime = now + timeout, whatever successCount was.             *)
C6_HalfOpenFailureOpens ==
    (cbLast.op = "failure" /\ cbLast.qualifies /\ cbLast.before = "HALF_OPEN")
      => (cb.state = "OPEN" /\ cb.nextAttemptTime = cbLast.at + config.timeout)

\* a probe has just failed after another probe had succeeded
C6_Witness ==
    /\ cbLast.op = "failure" /\ cbLast.qualifies
    /\ cbLast.before = "HALF_OPEN"
    /\ cbLast.successBefore >= 1
    /\ cb.failureCount < config.failureThreshold
    /\ cb.state = "OPEN"

---------------------------------------------------------------------------
(* Steps of the cache, as seen across one transition *)

\* this step is a call of the given name
IsCacheCall(op) ==
    cacheLast'.op = op /\ cacheOps' = cacheOps + 1 /\ now' = now

\* the set of entries of a store
EntriesOf(store) == {store[i] : i \in 1..Len(store)}

(* C7: on a cache built with maxSize >= 1, after any sequence of awaited   *)
(* set, get, delete, invalidateByTags, cleanup and clear calls the number  *)
(* of stored entries is at most maxSize.                                    *)
C7_SizeWithinMaxSize == Len(cache) <= cacheConfig.maxSize

\* a set has just evicted an entry of a full cache of two
C7_Witness ==
    /\ cacheLast.op = "set"
    /\ cacheConfig.maxSize = 2
    /\ Len(cache) = 2
    /\ metrics.evictions >= 1

\* the keys stored and not expired at time t
LiveKeys(store, t) == {e.key : e \in {x \in EntriesOf(store) : ~IsExpired(x, t)}}

\* the n keys of ks touchOrder longest ago
LeastRecentlyTouched(ks, n) ==
    LET order == SelectSeq(touchOrder, LAMBDA k : k \in ks)
    IN  {order[i] : i \in 1..Min(n, Len(order))}

(* C8: under LRU, a set that evicts removes, among the keys stored and not *)
(* expired, those whose latest get hit or set lies furthest back, and      *)
(* keeps the others: with maxSize 2, set A, set B, get A, set C removes B  *)
(* and keeps A and C.                                                       *)
C8_LruEvictsLeastRecentlyUsed ==
    [][ (IsCacheCall("set") /\ cacheConfig.strategy = "LRU"
         /\ metrics'.evictions > metrics.evictions)
          => LET live == LiveKeys(cache, now)
                 n == metrics'.evictions - metrics.evictions
             IN  KeysOf(cache') =
                   (live \ LeastRecentlyTouched(live, n)) \cup {cacheLast'.key}
      ]_vars

\* set k1, set k2, get k1, set k3 on an LRU cache of two: k2 is gone
C8_Witness ==
    /\ cacheConfig.strategy = "LRU" /\ cacheConfig.maxSize = 2
    /\ cacheOps = 4
    /\ touchOrder = <<"k1", "k3">>
    /\ EntryOf(cache, "k1").accessCount = 1
    /\ cacheLast.op = "set" /\ cacheLast.key = "k3"
    /\ metrics.hits = 1 /\ metrics.evictions = 1
    /\ KeysOf(cache) = {"k1", "k3"}

(* C9: invalidateByTags(tags) removes exactly the stored entries having a  *)
(* tag in tags, leaves every other entry as it was, and returns the number *)
(* removed; called again at once with the same tags it returns 0 and       *)
(* changes nothing.                                                         *)
C9_InvalidateByTagsExact ==
    [][ IsCacheCall("invalidateByTags")
          => /\ cache' = SelectSeq(cache,
                           LAMBDA e : e.tags \cap cacheLast'.tags = {})
             /\ cacheLast'.count = Len(cache) - Len(cache')
             /\ (cacheLast.op = "invalidateByTags"
                 /\ cacheLast.tags = cacheLast'.tags)
                  => /\ cacheLast'.count = 0
                     /\ UNCHANGED <<cache, accessOrder, metrics>> ]_vars

\* an invalidation has just removed one of two entries
C9_Witness ==
    /\ cacheLast.op = "invalidateByTags"
    /\ cacheLast.count = 1
    /\ Len(cache) = 1
    /\ cache[1].tags \cap cacheLast.tags = {}

\* store s2 is store s1 but for lastAccessed and accessCount of key's entry
SameButAccess(s1, s2, key) ==
    /\ Len(s1) = Len(s2)
    /\ \A i \in 1..Len(s1) :
         IF s1[i].key = key
         THEN s2[i] = [s1[i] EXCEPT !.lastAccessed = s2[i].lastAccessed,
                                    !.accessCount = s2[i].accessCount]
         ELSE s2[i] = s1[i]

(* C10: for a value whose serialized size is within maxEntrySize,          *)
(* set(key, v) followed at once by get(key), before the entry's TTL has    *)
(* elapsed, returns v; a second get returns v again, and these gets change *)
(* nothing but the entry's lastAccessed and accessCount, the LRU order and *)
(* the hit counter.                                                         *)
C10_SetGetRoundTrip ==
    [][ (IsCacheCall("get") /\ cacheLast.key = cacheLast'.key
         /\ \/ cacheLast.op = "set"
               /\ ~SetIsRejected(cacheConfig, cacheLast.value)
            \/ cacheLast.op = "get" /\ cacheLast.value # Null
         /\ HasKey(cache, cacheLast.key)
         /\ now < EntryOf(cache, cacheLast.key).expiresAt)
          => /\ cacheLast'.value = cacheLast.value
             /\ SameButAccess(cache, cache', cacheLast.key)
             /\ metrics' = [metrics EXCEPT !.hits = @ + 1]
             /\ Len(accessOrder') = Len(accessOrder)
             /\ \A i \in 1..Len(accessOrder) :
                  \E j \in 1..Len(accessOrder') : accessOrder'[j] = accessOrder[i]
      ]_vars

\* set(k, "b") and two gets of k, the second after a tick
C10_Witness ==
    /\ cacheLast.op = "get" /\ cacheLast.value = "b"
    /\ HasKey(cache, cacheLast.key)
    /\ EntryOf(cache, cacheLast.key).accessCount = 2
    /\ EntryOf(cache, cacheLast.key).lastAccessed
         > EntryOf(cache, cacheLast.key).createdAt
    /\ cacheOps = 4

(* C11: get(key) is a miss exactly when the key is absent or the time is   *)
(* past the entry's expiresAt, and in the expired case that get deletes    *)
(* the entry; after set(key, v) with ttl T (the default when none is       *)
(* given), a get earlier than T after the set is a hit and a get later      *)
(* than T after it is a miss.                                                *)
C11_MissIffAbsentOrExpired ==
    [][ IsCacheCall("get")
          => LET key == cacheLast'.key
                 stored == HasKey(cache, key)
                 isMiss == cacheLast'.value = Null
                 T == IF cacheLast.ttl = None THEN cacheConfig.defaultTtl
                      ELSE cacheLast.ttl
             IN  /\ isMiss <=> (~stored \/ now > EntryOf(cache, key).expiresAt)
                 /\ (stored /\ now > EntryOf(cache, key).expiresAt)
                      => ~HasKey(cache', key)
                 /\ (cacheLast.op = "set" /\ cacheLast.key = key
                     /\ ~SetIsRejected(cacheConfig, cacheLast.value))
                      => /\ (now - cacheLast.at < T) => ~isMiss
                         /\ (now - cacheLast.at > T) => isMiss ]_vars

\* a get, later than the ttl after the set, has just missed and deleted the
\* expired entry
C11_Witness ==
    /\ cacheLast.op = "get" /\ cacheLast.value = Null
    /\ ~HasKey(cache, cacheLast.key)
    /\ metrics.expirations = 1 /\ metrics.misses = 1
    /\ metrics.size = 1 /\ Len(cache) = 0
    /\ cacheLast.at >= 2 * MsPerTick

---------------------------------------------------------------------------
(* Steps of the limiter, as seen across one transition *)

\* this step is an admission check: a checkLimit call, or the check at the
\* head of an iteration of execute's loop
IsCheckLimitStep ==
    /\ now' = now
    /\ rlLast'.at = now
    /\ \/ rlLast'.op = "checkLimit" /\ ex' = ex
       \/ rlLast'.op = "execute" /\ ex.pc # "fn"

\* the last call on the limiter was an admission check
LastWasCheck == rlLast.op \in {"checkLimit", "execute"}

C13_AllowedAgainAfterWindow ==
    [][ IsCheckLimitStep
          => /\ (LastWasCheck /\ ~rlLast.status.allowed
                 /\ now >= rlLast.at + options.windowMs)
                  => rlLast'.status.allowed
             /\ ~rlLast'.status.allowed
                  => /\ now < lastRefill + options.windowMs
                     /\ lastRefill' = lastRefill ]_vars

\* execute had its first check rejected, slept one window, and its second
\* check has just refilled the bucket and been allowed
C13_Witness ==
    /\ options.windowMs = MsPerTick
    /\ ex.pc = "fn" /\ ex.attempts = 1 /\ ex.checks = 2
    /\ ex.sleeps = <<MsPerTick>>
    /\ rlLast.op = "execute" /\ rlLast.status.allowed
    /\ rlLast.at = lastRefill /\ lastRefill > 0
    /\ admitted = 1
    /\ tokens = options.maxRequests - 1

(* C14: for checkLimit calls made at any times, the checks allowed within  *)
(* any interval of length windowMs (a rolling window, wherever it starts)  *)
(* number at most maxRequests: at every moment at most maxRequests checks  *)
(* were allowed less than windowMs ago.                                     *)
C14_AtMostNPerRollingWindow == Len(admittedAt) <= options.maxRequests

\* this step is the admission check at the head of an iteration of
\* execute's loop, with what follows it up to the next await or throw
IsExecuteCheckStep ==
    /\ now' = now
    /\ rlLast'.op = "execute" /\ rlLast'.at = now
    /\ ex.pc # "fn"

\* the retries made and the invocations of fn made by the execute call
\* whose loop iteration is about to run
AttemptsSoFar == IF ex.pc = "sleep" THEN ex.attempts ELSE 0
InvokedSoFar == IF ex.pc = "sleep" THEN ex.invoked ELSE 0

IsFnSettlesStep == ex.pc = "fn" /\ ex' # ex /\ now' = now

(* C16: when the operation passed to execute throws an error that is not a *)
(* RateLimitError, execute ends at once rethrowing it: it records no       *)
(* sleep, no further check and no further invocation, whatever the retry   *)
(* options are, and the token taken for the attempt stays taken.           *)
C16_OwnErrorRethrownAtOnce ==
    [][ (IsFnSettlesStep /\ ex'.fnResult = "error")
          => /\ ex' = [ex EXCEPT !.pc = "done", !.outcome = "error",
                                 !.fnResult = "error"]
             /\ UNCHANGED <<tokens, lastRefill, rlLast, admitted>> ]_vars

\* with retries enabled, execute has just rethrown the operation's own
\* error after one check and one invocation
C16_Witness ==
    /\ options.enableRetry
    /\ ex.pc = "done" /\ ex.outcome = "error" /\ ex.fnResult = "error"
    /\ ex.checks = 1 /\ ex.invoked = 1 /\ ex.sleeps = <<>>
    /\ rlLast.op = "execute" /\ rlLast.status.allowed
    /\ tokens = options.maxRequests - 1

(* C17: during one execute call the operation is invoked at most once,     *)
(* for every retry configuration and every outcome of the operation.       *)
C17_InvokedAtMostOnce == ex.invoked <= 1

---------------------------------------------------------------------------
\* the last step on the breaker belongs to an execute call
LastWasExecute == cbLast.op \in {"execute", "success", "failure"}

---------------------------------------------------------------------------
(* C19: in UsersApi every read that misses the cache and every write goes  *)
(* through CircuitBreaker.execute before the HTTP operation is invoked:    *)
(* the breaker has counted at least as many requests as HTTP operations    *)
(* were invoked, and no HTTP operation is awaited while the breaker is     *)
(* OPEN before nextAttemptTime.                                             *)
C19_HttpOnlyThroughBreaker ==
    /\ api.httpCalls <= cb.totalRequests
    /\ (cb.state = "OPEN" /\ now < cb.nextAttemptTime) => ex.pc # "fn"

\* this step is a getUsers or getUser call starting
IsApiReadStep == api'.calls = api.calls + 1 /\ api'.key # Undefined

(* C20: a getUsers or getUser call that finds a stored, unexpired entry    *)
(* under its key returns the entry's value, takes no token of the limiter  *)
(* (tokens and lastRefill are as before, no admission check is made) and   *)
(* invokes no HTTP operation.                                               *)
C20_CacheHitSkipsLimiter ==
    [][ (IsApiReadStep /\ HasKey(cache, api'.key)
         /\ ~IsExpired(EntryOf(cache, api'.key), now))
          => /\ api'.pc = "done"
             /\ api'.result = EntryOf(cache, api'.key).value
             /\ api'.httpCalls = api.httpCalls
             /\ UNCHANGED <<tokens, lastRefill, ex, rlLast, admitted>> ]_vars

\* a read has just been answered from the cache with the bucket empty,
\* after an earlier read fetched and cached the response
C20_Witness ==
    /\ api.pc = "done" /\ api.op = "getUser"
    /\ api.result = Body
    /\ api.calls = 2 /\ api.httpCalls = 1
    /\ metrics.hits = 1
    /\ tokens = 0

\* the call in progress or last made is a write
IsWrite(a) == a.op \in {wr.op : wr \in Writes}

\* this step ends a write with the operation's success
IsWriteSuccessStep ==
    /\ IsWrite(api) /\ api.pc = "running"
    /\ api'.pc = "done" /\ api'.result = Body

\* this step is getUser(1) starting right after deleteUser(1) succeeded
IsGetUserAfterDeleteStep ==
    /\ api.op = "deleteUser" /\ api.pc = "done" /\ api.result = Body
    /\ IsApiReadStep /\ api'.op = "getUser"

C22_OversizeSetLeavesStore ==
    [][ (IsCacheCall("set")
         /\ CalculateSize(cacheLast'.value) > cacheConfig.maxEntrySize)
          => /\ UNCHANGED <<cache, accessOrder, metrics>>
             /\ HasKey(cache, cacheLast'.key)
                  => EntryOf(cache', cacheLast'.key).value
                       = EntryOf(cache, cacheLast'.key).value ]_vars

\* an oversize set has just been made on a full cache, under a key whose
\* entry is stored and expired
C22_Witness ==
    /\ cacheLast.op = "set"
    /\ CalculateSize(cacheLast.value) > cacheConfig.maxEntrySize
    /\ HasKey(cache, cacheLast.key)
    /\ IsExpired(EntryOf(cache, cacheLast.key), now)
    /\ EntryOf(cache, cacheLast.key).value = "b"
    /\ Len(cache) = cacheConfig.maxSize
    /\ cacheConfig.maxSize = 2

\* this step is a getStatus() or getHeaders() call
IsStatusReadStep ==
    /\ now' = now
    /\ rlLast'.op \in {"getStatus", "getHeaders"}
    /\ rlLast'.at = now

\* whether checkLimit() at t1 and then at t2 are allowed, on a limiter
\* with tok tokens last refilled at lr
TwoChecks(tok, lr, t1, t2) ==
    LET c1 == CheckLimit(options, tok, lr, t1)
        c2 == CheckLimit(options, c1.tokens, c1.lastRefill, t2)
    IN  <<c1.status.allowed, c2.status.allowed>>

\* the times, from now on, of two later checks
LaterChecks ==
    {<<now + i * MsPerTick, now + j * MsPerTick>> :
        i \in 0..MaxTime, j \in 0..MaxTime} \ {<<now, now>>}

(* C23: getStatus and getHeaders are side-effect-free: the allowed or      *)
(* rejected results of checkLimit calls made after a getStatus or          *)
(* getHeaders call are those the same checks would have had without it.    *)
C23_StatusReadsChangeNoResult ==
    [][ IsStatusReadStep
          => \A ts \in LaterChecks :
               ts[1] <= ts[2]
                 => TwoChecks(tokens', lastRefill', ts[1], ts[2])
                      = TwoChecks(tokens, lastRefill, ts[1], ts[2]) ]_vars

(* C24: constructing a component with a non-positive threshold, size,    *)
(* window or duration throws an Error and yields no instance: a            *)
(* RateLimiter with maxRequests <= 0 or windowMs <= 0, a CircuitBreaker    *)
(* with a non-positive failureThreshold, successThreshold, timeout or      *)
(* monitoringPeriod, a CacheManager with a non-positive maxSize,           *)
(* defaultTtl or cleanupInterval.                                           *)
C24_InvalidConfigYieldsNoInstance ==
    /\ (built.component = "RateLimiter"
        /\ (built.config.maxRequests <= 0 \/ built.config.windowMs <= 0))
         => built.outcome = "Error"
    /\ (built.component = "CircuitBreaker"
        /\ (\/ built.config.failureThreshold <= 0
            \/ built.config.successThreshold <= 0
            \/ built.config.timeout <= 0
            \/ built.config.monitoringPeriod <= 0))
         => built.outcome = "Error"
    /\ (built.component = "CacheManager"
        /\ (\/ built.config.maxSize <= 0
            \/ built.config.defaultTtl <= 0
            \/ built.config.cleanupInterval <= 0))
         => built.outcome = "Error"

(* C25: when set calls are started without awaiting one another, the     *)
(* number of stored entries never exceeds maxSize.                          *)
C25_UnawaitedSetsWithinMaxSize == Len(cache) <= cacheConfig.maxSize

\* this step is a call on the limiter that finds a whole window elapsed
\* since lastRefill and refills the bucket
IsRefillStep ==
    /\ now' = now
    /\ rlLast'.at = now
    /\ rlLast'.op \in {"checkLimit", "execute", "getStatus", "getHeaders"}
    /\ lastRefill' # lastRefill
    /\ now - lastRefill >= options.windowMs

(* C26: when a refill happens, tokens become min(maxRequests, tokens +      *)
(* floor(elapsed / windowMs) * maxRequests), less the token an allowed      *)
(* check takes, and lastRefill advances by exactly floor(elapsed /          *)
(* windowMs) * windowMs, not to the current time.                            *)
C26_RefillAdvancesByWholeWindows ==
    [][ IsRefillStep
          => LET windowsPassed == FloorDiv(now - lastRefill, options.windowMs)
                 taken == IF /\ rlLast'.op \in {"checkLimit", "execute"}
                             /\ rlLast'.status.allowed
                          THEN 1 ELSE 0
             IN  /\ tokens' = Min(options.maxRequests,
                                  tokens + windowsPassed * options.maxRequests)
                              - taken
                 /\ lastRefill' = lastRefill + windowsPassed * options.windowMs
      ]_vars

(* C27: after an operation succeeds while the breaker is CLOSED,          *)
(* failureCount is 0, whatever failures were recorded before and whenever   *)
(* the success comes relative to monitoringPeriod.                          *)
C27_ClosedSuccessZeroesFailureCount ==
    (cbLast.op = "success" /\ cbLast.before = "CLOSED") => cb.failureCount = 0

\* this step is an awaited operation rejecting
IsFailureStep == cbLast'.op = "failure" /\ inflight' # inflight

(* C28: when the awaited operation fails, execute rethrows its error; if    *)
(* an isFailure predicate is configured and answers false for the error,    *)
(* the failure handler leaves state, failureCount, successCount, the        *)
(* failure timestamps, lastFailureTime, nextAttemptTime (and totalRequests, *)
(* which grew when execute was entered) unchanged; otherwise, and always    *)
(* when no predicate is configured, the failure is recorded at the current  *)
(* time.                                                                     *)
C28_IgnoredErrorChangesNothing ==
    [][ IsFailureStep
          => /\ cbLast'.result = "error"
             /\ IF config.isFailure /\ ~cbLast'.qualifies
                THEN cb' = cb
                ELSE /\ cb'.lastFailureTime = now
                     /\ cb'.failures # <<>>
                     /\ cb'.failures[Len(cb'.failures)] = now
             /\ ~config.isFailure => cb'.lastFailureTime = now ]_vars

\* after a recorded failure, a later operation has just failed with an
\* error the predicate does not count, in a breaker that is still CLOSED
C28_Witness ==
    /\ config.isFailure
    /\ cbLast.op = "failure" /\ ~cbLast.qualifies
    /\ cb.state = "CLOSED"
    /\ cb.failureCount = 1 /\ cb.failures = <<0>>
    /\ cb.lastFailureTime = 0 /\ cbLast.at > 0
    /\ cb.totalRequests = 2

\* the sleeps execute is allowed: maxRetries with enableRetry, else none
SleepsAllowed == IF options.enableRetry THEN options.maxRetries ELSE 0

(* C29: one execute call makes at most maxRetries backoff sleeps and at     *)
(* most maxRetries + 1 admission checks (one more than its sleeps) when     *)
(* enableRetry is true, and exactly one check and no sleep when it is       *)
(* false; the k-th sleep is set for retryDelayMs * 2^(k-1) with             *)
(* exponentialBackoff and for retryDelayMs otherwise, from the time it is   *)
(* started; every turn of the loop returns, throws or uses up one of the    *)
(* retries, so the call ends if the operation does.                         *)
C29_BoundedRetriesAndBackoff ==
    [][ ex'.pc # "idle"
          => /\ ex'.attempts = Len(ex'.sleeps)
             /\ Len(ex'.sleeps) <= SleepsAllowed
             /\ ex'.checks >= 1
             /\ ex'.checks <= Len(ex'.sleeps) + 1
             /\ \A k \in 1..Len(ex'.sleeps) :
                  ex'.sleeps[k] = IF options.exponentialBackoff
                                  THEN options.retryDelayMs * Pow2(k - 1)
                                  ELSE options.retryDelayMs
             /\ (ex'.pc = "sleep" /\ ex'.sleeps # ex.sleeps)
                  => ex'.wake = now + ex'.sleeps[Len(ex'.sleeps)]
             /\ (ex.pc = "sleep" /\ ex'.pc # "sleep")
                  => /\ now >= ex.wake
                     /\ \/ ex'.pc \in {"fn", "done"}
                        \/ ex'.attempts = ex.attempts + 1 ]_vars

\* an execute call with exponential backoff and two retries has slept
\* twice, for retryDelayMs and for twice that, and made its third check
C29_Witness ==
    /\ options.enableRetry /\ options.exponentialBackoff
    /\ options.maxRetries = 2
    /\ ex.sleeps = <<options.retryDelayMs, 2 * options.retryDelayMs>>
    /\ ex.checks = 3
    /\ ex.pc \in {"fn", "done"}

(* C30: a set that is not rejected stores expiresAt = now + ttl whenever a *)
(* ttl option is supplied, ttl = 0 included, and expiresAt = now +          *)
(* defaultTtl only when none is supplied.                                   *)
C30_ExpiresAtFromSuppliedTtl ==
    (/\ cacheLast.op = "set"
     /\ ~SetIsRejected(cacheConfig, cacheLast.value)
     /\ HasKey(cache, cacheLast.key))
      => EntryOf(cache, cacheLast.key).expiresAt
           = cacheLast.at + (IF cacheLast.ttl # None THEN cacheLast.ttl
                             ELSE cacheConfig.defaultTtl)

\* the entries stored and not expired at time t
LiveEntries(store, t) == {e \in EntriesOf(store) : ~IsExpired(e, t)}

(* C31: a set that is not rejected first removes every expired entry,       *)
(* counting each as an expiration and none as an eviction, and then evicts  *)
(* only as many of the live entries as the store holds at or above          *)
(* maxSize, so that no live entry goes while an expired one stays; the      *)
(* store ends within maxSize; under a strategy other than LRU the evicted   *)
(* entries are those created earliest.                                       *)
C31_ExpiredPurgedBeforeEviction ==
    [][ (IsCacheCall("set") /\ ~SetIsRejected(cacheConfig, cacheLast'.value))
          => LET live == LiveEntries(cache, now)
                 expired == EntriesOf(cache) \ live
                 key == cacheLast'.key
                 gone == {e \in live : e.key # key /\ ~HasKey(cache', e.key)}
                 kept == {e \in live : e.key # key /\ HasKey(cache', e.key)}
             IN  /\ metrics'.expirations = metrics.expirations + Cardinality(expired)
                 /\ metrics'.evictions = metrics.evictions
                      + Max(0, Cardinality(live) - cacheConfig.maxSize + 1)
                 /\ \A e \in expired : e.key # key => ~HasKey(cache', e.key)
                 /\ Len(cache') <= cacheConfig.maxSize
                 /\ cacheConfig.strategy # "LRU"
                      => \A g \in gone, k \in kept : g.createdAt <= k.createdAt
      ]_vars

\* set, set, two ticks and a third set on a cache of two: the third set
\* removed the entry that had expired and evicted nothing
C31_Witness ==
    /\ cacheConfig.maxSize = 2
    /\ cacheOps = 5
    /\ cacheLast.op = "set" /\ cacheLast.at = 2 * MsPerTick
    /\ metrics.expirations = 1 /\ metrics.evictions = 0
    /\ Len(cache) = 2

(* C32: whenever getMetrics() is called, the size it reports is the        *)
(* number of entries in the store and the memoryUsage it reports is the     *)
(* sum of their sizes.                                                       *)
C32_MetricsMatchStore ==
    /\ metrics.size = Len(cache)
    /\ metrics.memoryUsage = SumSizes(cache)

(* C33: the cache's periodic cleanup task is active only for a cache that  *)
(* was constructed successfully and not yet destroyed: a constructor call   *)
(* that fails configuration validation leaves no timer running, and after  *)
(* destroy() no timer is running and the store is empty.                    *)
C33_TimerOnlyForLiveInstance ==
    /\ built.timer = "running" => built.outcome = "instance"
    /\ (built.timer = "cleared" /\ cacheLast.op = "destroy") => Len(cache) = 0

(* C34: while the breaker is HALF_OPEN only a limited number of calls are  *)
(* let through to the operation: the probes in flight never outnumber the   *)
(* successes the breaker needs to close (successThreshold), further         *)
(* execute calls being fast-failed or answered by the fallback.             *)
C34_HalfOpenProbesLimited ==
    cb.state = "HALF_OPEN" => inflight.HALF_OPEN <= config.successThreshold

\* a step that opens the breaker: it was not OPEN, or forceOpen() is called
IsOpeningStep ==
    /\ cb'.state = "OPEN"
    /\ cb.state # "OPEN" \/ (cbLast'.op = "forceOpen" /\ forced' = forced + 1)

(* C35: in every reachable breaker state, forceOpen and forceClose         *)
(* included, state = OPEN implies nextAttemptTime is set and state =        *)
(* CLOSED implies it is unset; nextAttemptTime is the time the breaker      *)
(* opened plus timeout and stays so while it is OPEN, hence once timeout    *)
(* has elapsed since it opened the next execute call moves it to HALF_OPEN  *)
(* and invokes the operation.                                               *)
C35_OpenBreakerIsNeverStuck ==
    /\ [](/\ cb.state = "OPEN" => cb.nextAttemptTime # None
          /\ cb.state = "CLOSED" => cb.nextAttemptTime = None)
    /\ [][ /\ IsOpeningStep => cb'.nextAttemptTime = now + config.timeout
           /\ (cb.state = "OPEN" /\ cb'.state = "OPEN" /\ ~IsOpeningStep)
                => cb'.nextAttemptTime = cb.nextAttemptTime
           /\ (IsExecuteStep /\ cb.state = "OPEN" /\ now >= cb.nextAttemptTime)
                => (cb'.state = "HALF_OPEN" /\ cbLast'.invoked) ]_vars

C35_Witness ==
    /\ cbLast.op = "execute"
    /\ cbLast.before = "OPEN"
    /\ cbLast.invoked
    /\ cb.state = "HALF_OPEN"
    /\ forced = 2
    /\ cbLast.at = cb.nextAttemptTime

\* the operation of an execute call admitted in state a settles
IsSettleStep(op, a) ==
    /\ cbLast'.op = op
    /\ cbLast'.admitted = a
    /\ inflight'[a] = inflight[a] - 1

(* C36: with several execute calls in flight, an operation's outcome is    *)
(* accounted to the state in which it was admitted: a qualifying failure    *)
(* of a probe admitted in HALF_OPEN always leaves the breaker OPEN, and a   *)
(* success of an operation admitted while CLOSED never counts towards       *)
(* successThreshold once the breaker is HALF_OPEN (it neither closes the    *)
(* circuit nor raises successCount).                                        *)
C36_OutcomeAccountedToAdmissionState ==
    [][ /\ (IsSettleStep("failure", "HALF_OPEN") /\ cbLast'.qualifies)
             => cb'.state = "OPEN"
        /\ (IsSettleStep("success", "CLOSED") /\ cb.state = "HALF_OPEN")
             => (cb'.state = "HALF_OPEN" /\ cb'.successCount = cb.successCount)
      ]_vars

(* C37: a set on a key that is already stored and live replaces that      *)
(* key's entry and never removes an entry stored under a different live     *)
(* key, also when the store is at maxSize.                                  *)
C37_ReplacingSetKeepsOtherKeys ==
    [][ (/\ IsCacheCall("set")
         /\ ~SetIsRejected(cacheConfig, cacheLast'.value)
         /\ \E e \in LiveEntries(cache, now) : e.key = cacheLast'.key)
          => /\ HasKey(cache', cacheLast'.key)
             /\ EntryOf(cache', cacheLast'.key).value = cacheLast'.value
             /\ \A e \in LiveEntries(cache, now) : HasKey(cache', e.key) ]_vars

(* C38: for every interleaving of a getUser(1) and a successful            *)
(* updateUser, patchUser or deleteUser of user 1 on one UsersApi, once the  *)
(* calls have completed the cache holds no entry for user 1 with a value    *)
(* from before the write: a stored entry holds what the server holds.       *)
C38_NoStaleEntryAfterWrite ==
    (\A c \in Callers : callers[c].pc \in {"idle", "done"})
      => \A e \in EntriesOf(cache) :
           e.key = GenerateCacheKey("/users/1")
             => (server.exists /\ e.value = UserValue(server.version))

(* C39: with an AuthService configured, getUsers and getUser return user   *)
(* data only when session validation and the role check succeed at the     *)
(* time of the call, also when the requested data is in the cache.          *)
C39_DataOnlyWithValidSession ==
    \A c \in Callers :
      (callers[c].op \in {"getUsers", "getUser"} /\ callers[c].result = "data")
        => callers[c].sessionValid

=============================================================================
